---- MODULE Spec2Model ----
(***************************************************************************)
(* The session engine of xiaozhi-go: client.Client (package client) on top *)
(* of protocol.WebsocketProtocol.  Every goroutine is a process whose      *)
(* steps are the critical sections and I/O calls of the Go code:           *)
(*   - caller goroutines invoke the engine's and the transport's methods,  *)
(*   - one readPump goroutine per connection dispatches inbound frames,    *)
(*   - each handleDisconnected call starts a handler goroutine and waits   *)
(*     for it or for the 2 s watchdog.                                     *)
(* c.mu is an explicit variable because sync.Mutex is not reentrant.       *)
(***************************************************************************)
EXTENDS Integers, Sequences, FiniteSets, TLC

\* ---- bounds of the model ----
MaxConns == 1       \* read loops (and their connections) alive at a time
MaxSlots == 2       \* the same, for the transport taken on its own
MaxIds == 2         \* session ids told apart
MaxOrphans == 1     \* handler goroutines abandoned by the watchdog at a time
MaxPlayers == 3     \* players allocated by the application, the first included
MaxPending == 2     \* frames waiting in a player's queue in the rebuild model
MaxQueue == 101     \* frames the playback queue is followed up to
MaxChans == 2       \* audio channels whose sender goroutine has not ended
MaxStopChans == 3   \* stop channels of the Oto player in use at a time
MaxConsumers == 3   \* playback consumer goroutines alive at a time

\* ---- program constants ----
StateIdle == "idle"
StateConnecting == "connecting"
StateListening == "listening"
StateSpeaking == "speaking"
ListenModeAuto == "auto"
ListenModeManual == "manual"
ListenModeRealtime == "realtime"
NoSession == 0      \* sessionID == ""
NilConn == 0        \* wp.conn == nil

Callers == {"u1", "u2"}
Conns == 1..MaxSlots
States == {StateIdle, StateConnecting, StateListening, StateSpeaking}
ModeArgs == {"", ListenModeManual}
\* The reasons the application aborts with (main.go:601, 664).
AbortReasons == {"start_recording", "stop_speaking"}
InMsgs == {"tts_start", "tts_stop", "hello", "hello_bad", "binary"}
WriteResults == {"ok", "err_write"}
Ops == {"Open", "Close", "StartListening", "StopListening", "WakeWord", "Abort",
        "SendAudio", "IoTState", "IoTDescriptors", "Connect", "ForceDisconnect"}

\* The goroutines of the application that call into the engine: u1 is the one
\* that drives the session (main.go, handleKeyPress), u2 runs beside it: the
\* audio sender (main.go:922), the shutdown path (main.go:171-176) and the
\* reconnect (main.go:382).
OpsOf(t) ==
  IF t = "u1" THEN Ops
  ELSE {"SendAudio", "Close", "ForceDisconnect", "Connect"}

VARIABLES
  \* client.Client
  state, sessionID, listenMode, mu,
  \* protocol.WebsocketProtocol
  connected, conn, stopClosed,
  \* readPump goroutines, one per connection
  pump, rc, phd,
  \* caller goroutines
  pc, op, mode, sid, sent, hd,
  \* err of CloseAudioChannel (line 344), and whether the call in progress
  \* has itself written the session (history)
  err, touched,
  \* handler goroutines whose waiter timed out, and a process-wide panic
  orphans, crashed,
  \* history variables: the return made by the last step (if it was one), the
  \* connections whose server hello was received, and whether a disconnected
  \* event was delivered with no operation invoked since
  last, ack, sinceDisc,
  \* whether the transport was disconnected since the session id in use was
  \* generated (history)
  outlived,
  \* the frame the last step dispatched (if it dispatched one) and the
  \* callbacks the step invoked, in a frame's handler or in SetState
  \* (history)
  heard,
  \* AudioPlayerNew: p.queue (the frames waiting to be played) and p.isPlaying
  queue, isPlaying,
  \* main.go: the global audioPlayer, the players allocated so far, the
  \* goroutine running reinitializeOpusDecoder (rb), the goroutine running the
  \* audio-data callback (enq), and what the last step of QueueAudio did with
  \* its frame (history)
  audioPlayer, players, rb, enq, handled,
  \* main.go, recording: the global audioChan (a channel id, or NilChan), the
  \* channels made so far (open or closed, frames pending), the sender
  \* goroutine of each channel, the goroutine handling the keys (kpc), the
  \* recorder's capture goroutine (cap), whether the recorder is recording,
  \* and what the last step of the capture callback did with its frame
  \* (history)
  audioChan, chans, sender, kpc, cap, isRecording, captured,
  \* package audio, the Oto player: the package variable otoInited, whether the
  \* player belongs to an audio manager, the player's fields (otoPlayer), the
  \* holder of p.mutex, the stop channels made so far, the playback consumer
  \* goroutines, the goroutines calling Start and Stop (upc), and the return
  \* of RecreatePlayer if the last step was one (history)
  otoInited, manager, otoPlayer, pmutex, stopChans, consumers, upc, recreated

engineVars == <<state, sessionID, listenMode, mu>>
transVars == <<connected, conn, stopClosed>>
pumpVars == <<pump, rc, phd>>
callVars == <<pc, op, mode, sid, sent, hd, err, touched>>
histVars == <<ack, sinceDisc, outlived>>
rebuildVars == <<audioPlayer, players, rb, enq, handled>>
captureVars == <<audioChan, chans, sender, kpc, cap, isRecording, captured>>
otoVars == <<otoInited, manager, otoPlayer, pmutex, stopChans, consumers, upc,
             recreated>>
audioVars == <<captureVars, otoVars>>
playerVars == <<queue, isPlaying, rebuildVars, audioVars>>
vars == <<engineVars, transVars, pumpVars, callVars, orphans, crashed, heard, last,
         playerVars,
          histVars>>

\* The channels startRecording makes, at most MaxChans of them in use at a
\* time; 0 is the nil channel.  A channel is open or closed and holds n
\* frames.
ChanIds == 1..MaxChans
NilChan == 0
NoChan == [open |-> FALSE, n |-> 0]

\* The capacity of the channel, make(chan []byte, 100) (main.go:915).
AudioChanCapacity == 100

\* The stop channels of the Oto player, at most MaxStopChans of them in use
\* at a time (0 is none), its playback consumers, and the audio parameters a
\* player is built for (sample rates; main.go uses 16000 and 24000).
StopChanIds == 1..MaxStopChans
ConsumerIds == 1..MaxConsumers
AudioParams == {16000, 24000}
NoOtoPlayer ==
  [made |-> FALSE, params |-> 0, isPlaying |-> FALSE, stopChan |-> 0,
   prevChan |-> 0, stopChanClosed |-> FALSE, dummyMode |-> FALSE]
NoConsumer == [pc |-> "none", ch |-> 0]
NoRecreate == [res |-> "none", params |-> 0]

\* The players the application allocates, in order; 0 is no player.
PlayerIds == 1..MaxPlayers
NoPlayer == 0

\* A player as NewAudioPlayer2 returns it (player.go:59-70): not playing, its
\* decoder set, its queue empty.
NewPlayer == [isPlaying |-> FALSE, decoder |-> TRUE, queue |-> 0]

\* The value of handled after a step in which QueueAudio disposed of no frame.
NoHandled == [by |-> NoPlayer, how |-> "none", isPlaying |-> FALSE,
              decoder |-> FALSE, current |-> FALSE]

\* The payloads of inbound binary frames.
Payloads == {"pcm_a", "pcm_b"}

\* The value of heard after a step that dispatched no frame.
NoFrame == [msg |-> "none", data |-> "", calls |-> <<>>]

\* The value of last after a step that returned from no operation.
NoReturn == [op |-> "none", res |-> "none", frames |-> <<>>]

\* A step of the engine or the transport that returns from no operation and
\* dispatches no frame.
Quiet == last' = NoReturn /\ heard' = NoFrame /\ UNCHANGED playerVars

Init ==
  /\ state = StateIdle /\ sessionID = NoSession /\ listenMode = "" /\ mu = "free"
  /\ connected = FALSE /\ conn = NilConn /\ stopClosed = FALSE
  /\ pump = [c \in Conns |-> "none"]
  /\ rc = [c \in Conns |-> NilConn] /\ phd = [c \in Conns |-> "none"]
  /\ pc = [t \in Callers |-> "idle"] /\ op = [t \in Callers |-> "none"]
  /\ mode = [t \in Callers |-> ""]
  /\ sid = [t \in Callers |-> NoSession] /\ sent = [t \in Callers |-> <<>>]
  /\ hd = [t \in Callers |-> "none"]
  /\ err = [t \in Callers |-> "none"] /\ touched = [t \in Callers |-> FALSE]
  /\ orphans = 0 /\ crashed = FALSE
  /\ last = NoReturn /\ heard = NoFrame
  /\ queue = <<>> /\ isPlaying = FALSE
  \* main.go:746-749: the first player is created and started.
  /\ audioPlayer = 1
  /\ players = [p \in PlayerIds |->
                  IF p = 1 THEN [NewPlayer EXCEPT !.isPlaying = TRUE]
                  ELSE NewPlayer]
  /\ rb = [pc |-> "idle", old |-> NoPlayer, new |-> NoPlayer]
  /\ enq = [pc |-> "idle", p |-> NoPlayer]
  /\ handled = NoHandled
  /\ ack = [c \in Conns |-> FALSE] /\ sinceDisc = FALSE
  /\ outlived = FALSE
  \* main.go:60: no channel yet, nothing recorded.
  /\ audioChan = NilChan
  /\ chans = [i \in ChanIds |-> NoChan]
  /\ sender = [i \in ChanIds |-> "none"]
  /\ kpc = "idle" /\ cap = "none" /\ isRecording = FALSE
  /\ captured = "none"
  \* part_007:359: no Oto context yet, no player made.
  /\ otoInited = FALSE /\ manager = FALSE
  /\ otoPlayer = NoOtoPlayer
  /\ pmutex = "free"
  /\ stopChans = [i \in StopChanIds |-> "open"]
  /\ consumers = [c \in ConsumerIds |-> NoConsumer]
  /\ upc = [t \in Callers |-> "idle"]
  /\ recreated = NoRecreate

\* ---------------------------------------------------------------------
\* Helpers shared by the goroutines
\* ---------------------------------------------------------------------

\* A caller goes on to p with its locals set; w tells whether this step wrote
\* the session.
WroteHeard(t, p, s, m, fr, w, h) ==
  /\ pc' = [pc EXCEPT ![t] = p]
  /\ sid' = [sid EXCEPT ![t] = s]
  /\ mode' = [mode EXCEPT ![t] = m]
  /\ sent' = [sent EXCEPT ![t] = fr]
  /\ touched' = [touched EXCEPT ![t] = @ \/ w]
  /\ last' = NoReturn /\ heard' = h /\ UNCHANGED playerVars
  /\ UNCHANGED <<op, err>>

Wrote(t, p, s, m, fr, w) == WroteHeard(t, p, s, m, fr, w, NoFrame)

Local(t, p, s, m, fr) == Wrote(t, p, s, m, fr, FALSE)

Goto(t, p) == Local(t, p, sid[t], mode[t], sent[t])

\* A caller returns r to the application, having sent the frames fr; its
\* locals die with the frame.
RetHeard(t, r, fr, h) ==
  /\ pc' = [pc EXCEPT ![t] = "idle"]
  /\ op' = [op EXCEPT ![t] = "none"]
  /\ sid' = [sid EXCEPT ![t] = NoSession]
  /\ mode' = [mode EXCEPT ![t] = ""]
  /\ sent' = [sent EXCEPT ![t] = <<>>]
  /\ err' = [err EXCEPT ![t] = "none"]
  /\ touched' = [touched EXCEPT ![t] = FALSE]
  /\ last' = [op |-> op[t], res |-> r, frames |-> fr]
  /\ heard' = h
  /\ UNCHANGED playerVars

Ret(t, r, fr) == RetHeard(t, r, fr, NoFrame)

SendResultUnchecked(w) == w

\* SendJSON / SendBinary, lines 290-313: "not connected" unless connected with
\* a handle, otherwise w, the result of the write on the socket.
SendResult(w) ==
  IF ~connected \/ conn = NilConn THEN "err_notconn" ELSE w

\* A frame as it leaves the transport; pre records whether it left before the
\* server's valid hello was received on that connection.
Frame(ty, st, md, s) ==
  [type |-> ty, state |-> st, mode |-> md, sid |-> s, conn |-> conn,
   pre |-> IF conn = NilConn THEN TRUE ELSE ~ack[conn]]

\* WebsocketProtocol.Disconnect: no-op when not connected, otherwise the flag
\* is cleared, the handle dropped and the stop channel closed under wp.mu.
\* The socket itself is closed later by a goroutine (lines 267-283).
Disconnect ==
  IF ~connected \/ conn = NilConn
  THEN UNCHANGED <<connected, conn, stopClosed, outlived>>
  ELSE /\ connected' = FALSE
       /\ conn' = NilConn
       /\ stopClosed' = TRUE
       /\ outlived' = (outlived \/ sessionID # NoSession)

\* The locked section of the handler goroutine of handleDisconnected, lines
\* 548-554.
HandlerSection ==
  /\ mu = "free"
  /\ state' = StateIdle
  /\ sessionID' = NoSession
  /\ outlived' = FALSE
  /\ UNCHANGED <<listenMode, mu>>

\* Its next stage, lines 557-559: the channel-closed callback is invoked
\* ("cb") when the state it found was not Idle, and not invoked otherwise.
HandlerStage(oldState) == IF oldState # StateIdle THEN "cb" ELSE "nocb"

\* The watchdog branch of handleDisconnected.
WatchdogSection ==
  /\ mu = "free"
  /\ state' = StateIdle
  /\ sessionID' = NoSession
  /\ outlived' = FALSE
  /\ UNCHANGED <<listenMode, mu>>

\* ---------------------------------------------------------------------
\* Guards of the engine's operations
\* ---------------------------------------------------------------------
OpenAllowedInSpeaking(s) == s \in {StateIdle, StateSpeaking}
AudioAllowedInSpeaking(s) == s \in {StateListening, StateSpeaking}
CloseAlways(s) == TRUE
AbortAlways(s) == TRUE
OpenAllowed(s) == s = StateIdle
CloseNeeded(s) == s # StateIdle
StartAllowed(s) == s \in {StateConnecting, StateIdle, StateSpeaking}
StopAllowed(s) == s = StateListening
WakeAllowed(s) == s \in {StateListening, StateSpeaking, StateIdle}
AbortNeeded(s) == s # StateIdle
AudioAllowed(s) == s = StateListening

FirstPc(o) ==
  CASE o = "Open" -> "open_lock"
    [] o = "Close" -> "close_lock"
    [] o = "StartListening" -> "sl_lock"
    [] o = "StopListening" -> "stop_lock"
    [] o = "WakeWord" -> "ww_lock"
    [] o = "Abort" -> "ab_lock"
    [] o = "SendAudio" -> "sad_lock"
    [] o = "IoTState" -> "iot_lock"
    [] o = "IoTDescriptors" -> "iot_lock"
    [] o = "Connect" -> "conn_check"
    [] o = "ForceDisconnect" -> "fd"
    [] o = "Disconnect" -> "disc"
    [] o = "Send" -> "send"

InFlight(os) == Cardinality({u \in Callers : op[u] \in os})

\* The connections Connect can dial next: no read loop of an earlier
\* connection of that name is left.
FreeConns ==
  {c \in Conns : pump[c] = "none" /\ conn # c /\ \A k \in Conns : rc[k] # c}

\* uuid.New(): an id that differs from every id a goroutine still holds.
SessionIds == 1..MaxIds
HeldIds ==
  {sid[u] : u \in Callers}
    \cup UNION {{sent[u][i].sid : i \in 1..Len(sent[u])} : u \in Callers}
FreshId ==
  CHOOSE i \in SessionIds \ HeldIds : \A j \in SessionIds \ HeldIds : i <= j

\* ---------------------------------------------------------------------
\* Caller goroutines
\* ---------------------------------------------------------------------

\* A goroutine of the application invokes an operation; mode[t] holds the
\* string argument of the call, the listen mode of StartListening or the
\* reason of AbortSpeaking.
Invoke(t, ops) ==
  /\ pc[t] = "idle"
  /\ \E o \in ops, m \in ModeArgs \cup AbortReasons :
       /\ CASE o = "StartListening" -> m \in ModeArgs
            [] o = "Abort" -> m \in AbortReasons
            [] OTHER -> m = ""
       /\ op' = [op EXCEPT ![t] = o]
       /\ mode' = [mode EXCEPT ![t] = m]
       /\ pc' = [pc EXCEPT ![t] = FirstPc(o)]
  /\ Quiet
  /\ sinceDisc' = FALSE
  /\ UNCHANGED <<engineVars, transVars, pumpVars, sid, sent, hd, err, touched,
                 orphans,
                 crashed, ack, outlived>>

Call(t) == Invoke(t, OpsOf(t))

\* OpenAudioChannel, lines 190-194: the state check under c.mu.  On the Idle
\* path the lock is still held when SetState is called (line 195).
OpenLock(t) ==
  /\ pc[t] = "open_lock"
  /\ mu = "free"
  /\ IF OpenAllowed(state)
     THEN mu' = t /\ Goto(t, "open_SetState")
     ELSE UNCHANGED mu /\ Ret(t, "err_state", sent[t])
  /\ UNCHANGED <<state, sessionID, listenMode, transVars, pumpVars,
                 hd, orphans, crashed, histVars>>

CloseResultSwallowed(e) == "ok"

\* CloseAudioChannel, line 362: return err, the error of Disconnect or the
\* panic it was recovered from (lines 345-354), nil otherwise.
CloseResult(e) == IF e = "none" THEN "ok" ELSE e

\* The call sites of SetState in the caller goroutines and the state written.
SetStateSites == {"open_SetState", "sl_SetState", "close_SetState"}

\* SetState, lines 183-185: the state-changed callback, invoked when the state
\* written differs from the state found.
StateCallbacks(old, new) ==
  IF old # new THEN <<[cb |-> "onStateChanged", arg |-> <<old, new>>]>>
  ELSE <<>>

\* What a SetState made by a caller leaves in heard: no frame, the callbacks
\* it invoked.
SetStateHeard(old, new) ==
  [msg |-> "none", data |-> "", calls |-> StateCallbacks(old, new)]

SetStateTargetIdle(p) == StateIdle

SetStateTarget(p) ==
  CASE p = "open_SetState" -> StateConnecting
    [] p = "sl_SetState" -> StateListening
    [] p = "close_SetState" -> StateIdle

\* SetState, lines 176-186: c.mu.Lock(); c.state = newState; c.mu.Unlock().
\* Lock blocks while the mutex is held, by whichever goroutine.  After
\* open_SetState the caller goes on to the headers and the connect (lines
\* 197-325).
CallerSetState(t) ==
  /\ pc[t] \in SetStateSites
  /\ mu = "free"
  /\ state' = SetStateTarget(pc[t])
  /\ LET h == SetStateHeard(state, state')
     IN IF pc[t] = "open_SetState"
        THEN WroteHeard(t, "open_headers", sid[t], mode[t], sent[t], FALSE, h)
        ELSE IF pc[t] = "sl_SetState" /\ op[t] = "WakeWord"
        THEN WroteHeard(t, "ww_lock2", sid[t], mode[t], sent[t],
                        state' # state, h)
        ELSE IF pc[t] = "close_SetState"
        THEN RetHeard(t, CloseResult(err[t]), sent[t], h)
        ELSE RetHeard(t, "ok", sent[t], h)
  /\ UNCHANGED <<sessionID, listenMode, mu, transVars, pumpVars,
                 hd, orphans, crashed, histVars>>

\* CloseAudioChannel, lines 336-341.
CloseLock(t) ==
  /\ pc[t] = "close_lock"
  /\ mu = "free"
  /\ IF CloseNeeded(state)
     THEN Goto(t, "close_disc")
     ELSE Ret(t, "ok", sent[t])
  /\ UNCHANGED <<engineVars, transVars, pumpVars, hd, orphans, crashed,
                 histVars>>

\* CloseAudioChannel, lines 345-357: protocol.Disconnect(), then
\* handleDisconnected starts its handler goroutine.
CloseDisconnect(t) ==
  /\ pc[t] = "close_disc"
  /\ Disconnect
  /\ hd' = [hd EXCEPT ![t] = "start"]
  /\ Goto(t, "close_wait")
  /\ UNCHANGED <<engineVars, pumpVars, orphans, crashed, ack,
                 sinceDisc>>

\* The ways a transport's Disconnect can fail: an error returned, a panic.
DisconnectFailures == {"err_disconnect", "err_panic"}

\* CloseAudioChannel, lines 345-357, on a transport (any protocol.Protocol)
\* whose Disconnect returns an error or panics: the panic is recovered at
\* lines 346-351, err is kept and handleDisconnected(err) is called all the
\* same.  The failed call has not changed the transport.
CloseDisconnectFails(t) ==
  /\ pc[t] = "close_disc"
  /\ \E e \in DisconnectFailures : err' = [err EXCEPT ![t] = e]
  /\ hd' = [hd EXCEPT ![t] = "start"]
  /\ pc' = [pc EXCEPT ![t] = "close_wait"]
  /\ Quiet
  /\ UNCHANGED <<engineVars, transVars, pumpVars, op, mode, sid, sent,
                 touched, orphans, crashed, histVars>>

\* The handler goroutine of a caller's handleDisconnected, lines 548-554.
HdRun(t) ==
  /\ hd[t] = "start"
  /\ HandlerSection
  /\ hd' = [hd EXCEPT ![t] = HandlerStage(state)]
  /\ Quiet
  /\ UNCHANGED <<transVars, pumpVars, pc, op, mode, sid, sent, err, touched,
                 orphans,
                 crashed, ack, sinceDisc>>

\* Its callbacks return, done is closed (lines 557-565 and 546) and
\* handleDisconnected returns on done (lines 569-571).
CloseWaitDone(t) ==
  /\ pc[t] = "close_wait"
  /\ hd[t] \in {"cb", "nocb"}
  /\ hd' = [hd EXCEPT ![t] = "none"]
  /\ Goto(t, "close_SetState")
  /\ UNCHANGED <<engineVars, transVars, pumpVars, orphans, crashed, histVars>>

\* The 2 s watchdog fires first, lines 572-580.  A handler that has not run
\* its locked section yet runs it later, after its waiter has gone.
CloseWaitTimeout(t) ==
  /\ pc[t] = "close_wait"
  /\ hd[t] # "none"
  /\ hd[t] = "start" => orphans < MaxOrphans
  /\ WatchdogSection
  /\ orphans' = IF hd[t] = "start" THEN orphans + 1 ELSE orphans
  /\ hd' = [hd EXCEPT ![t] = "none"]
  /\ Goto(t, "close_SetState")
  /\ UNCHANGED <<transVars, pumpVars, crashed, ack, sinceDisc>>

\* An abandoned handler goroutine runs, lines 548-565.
OrphanRun ==
  /\ orphans > 0
  /\ HandlerSection
  /\ orphans' = orphans - 1
  /\ Quiet
  /\ UNCHANGED <<transVars, pumpVars, callVars, crashed, ack, sinceDisc>>

\* SendStartListening, lines 367-385.
SlLock(t) ==
  /\ pc[t] = "sl_lock"
  /\ mu = "free"
  /\ IF StartAllowed(state)
     THEN /\ sessionID' = IF sessionID = NoSession THEN FreshId ELSE sessionID
          /\ listenMode' = IF mode[t] = "" THEN ListenModeManual ELSE mode[t]
          /\ outlived' = (sessionID # NoSession /\ outlived)
          /\ Wrote(t, "sl_send", sessionID', listenMode', sent[t],
                   sessionID' # sessionID \/ listenMode' # listenMode)
     ELSE /\ Ret(t, "err_state", sent[t])
          /\ UNCHANGED <<sessionID, listenMode, outlived>>
  /\ UNCHANGED <<state, mu, transVars, pumpVars, hd, orphans, crashed,
                 ack, sinceDisc>>

\* SendStartListening, lines 388-398: the listen/start frame.
SlSend(t) ==
  /\ pc[t] = "sl_send"
  /\ \E w \in WriteResults :
       IF SendResult(w) = "ok"
       THEN Local(t, "sl_SetState", sid[t], mode[t],
                  Append(sent[t], Frame("listen", "start", mode[t], sid[t])))
       ELSE Ret(t, SendResult(w), sent[t])
  /\ UNCHANGED <<engineVars, transVars, pumpVars, hd, orphans, crashed,
                 histVars>>

\* SendStopListening, lines 407-414.
StopLock(t) ==
  /\ pc[t] = "stop_lock"
  /\ mu = "free"
  /\ IF StopAllowed(state)
     THEN Local(t, "stop_send", sessionID, mode[t], sent[t])
     ELSE Ret(t, "err_state", sent[t])
  /\ UNCHANGED <<engineVars, transVars, pumpVars, hd, orphans, crashed,
                 histVars>>

WakeListenModeManual == ListenModeManual

\* The mode SendWakeWordDetected starts listening with, line 437.
WakeListenMode == ListenModeAuto

\* SendWakeWordDetected, lines 428-445: outside Listening the lock is dropped
\* and SendStartListening(auto) is called first.
WwLock(t) ==
  /\ pc[t] = "ww_lock"
  /\ mu = "free"
  /\ IF ~WakeAllowed(state)
     THEN Ret(t, "err_state", sent[t])
     ELSE IF state # StateListening
     THEN Local(t, "sl_lock", sid[t], WakeListenMode, sent[t])
     ELSE Local(t, "ww_send", sessionID, mode[t], sent[t])
  /\ UNCHANGED <<engineVars, transVars, pumpVars, hd, orphans, crashed,
                 histVars>>

\* SendWakeWordDetected, lines 441-445: the lock is taken again.
WwLock2(t) ==
  /\ pc[t] = "ww_lock2"
  /\ mu = "free"
  /\ Local(t, "ww_send", sessionID, mode[t], sent[t])
  /\ UNCHANGED <<engineVars, transVars, pumpVars, hd, orphans, crashed,
                 histVars>>

\* SendAbortSpeaking, lines 460-467.
AbLock(t) ==
  /\ pc[t] = "ab_lock"
  /\ mu = "free"
  /\ IF AbortNeeded(state)
     THEN Local(t, "ab_send", sessionID, mode[t], sent[t])
     ELSE Ret(t, "ok", sent[t])
  /\ UNCHANGED <<engineVars, transVars, pumpVars, hd, orphans, crashed,
                 histVars>>

\* SendIoTState / SendIoTDescriptors, lines 481-488 and 502-509.
IotLock(t) ==
  /\ pc[t] = "iot_lock"
  /\ mu = "free"
  /\ IF connected
     THEN Local(t, "iot_send", sessionID, mode[t], sent[t])
     ELSE Ret(t, "err_notconn", sent[t])
  /\ UNCHANGED <<engineVars, transVars, pumpVars, hd, orphans, crashed,
                 histVars>>

\* SendAudioData, lines 523-528.
SadLock(t) ==
  /\ pc[t] = "sad_lock"
  /\ mu = "free"
  /\ IF AudioAllowed(state)
     THEN Goto(t, "sad_send")
     ELSE Ret(t, "err_state", sent[t])
  /\ UNCHANGED <<engineVars, transVars, pumpVars, hd, orphans, crashed,
                 histVars>>

\* The abort message of SendAbortSpeaking, lines 469-473.
AbortFrame(r, s) ==
  [type |-> "abort", state |-> "", mode |-> "", sid |-> s, conn |-> conn,
   pre |-> IF conn = NilConn THEN TRUE ELSE ~ack[conn], reason |-> r]

\* The frame each operation ends with.
LastFrame(t) ==
  CASE pc[t] = "stop_send" -> Frame("listen", "stop", "", sid[t])
    [] pc[t] = "ww_send" -> Frame("listen", "detect", "", sid[t])
    [] pc[t] = "ab_send" -> AbortFrame(mode[t], sid[t])
    [] pc[t] = "iot_send" -> Frame("iot", op[t], "", sid[t])
    [] pc[t] = "sad_send" -> Frame("binary", "", "", NoSession)

\* return c.protocol.SendJSON(...) / SendBinary(data): lines 423, 455, 476,
\* 497, 518, 530.
LastSend(t) ==
  /\ pc[t] \in {"stop_send", "ww_send", "ab_send", "iot_send", "sad_send"}
  /\ \E w \in WriteResults :
       Ret(t, SendResult(w),
           IF SendResult(w) = "ok" THEN Append(sent[t], LastFrame(t))
           ELSE sent[t])
  /\ UNCHANGED <<engineVars, transVars, pumpVars, hd, orphans, crashed,
                 histVars>>

\* ---------------------------------------------------------------------
\* The transport as the application drives it (cmd/client/main.go)
\* ---------------------------------------------------------------------

ConnCheckBlind(t) ==
  /\ pc[t] = "conn_check"
  /\ Goto(t, "conn_dial")
  /\ UNCHANGED <<engineVars, transVars, pumpVars, hd, orphans, crashed,
                 histVars>>

\* WebsocketProtocol.Connect, lines 92-99.
ConnCheck(t) ==
  /\ pc[t] = "conn_check"
  /\ IF connected
     THEN Ret(t, "err_connected", sent[t])
     ELSE Goto(t, "conn_dial")
  /\ UNCHANGED <<engineVars, transVars, pumpVars, hd, orphans, crashed,
                 histVars>>

\* The connection the next successful dial makes.
NewConn == CHOOSE c \in FreeConns : \A d \in FreeConns : c <= d

\* The read loops that have not returned.
LiveLoops == {k \in Conns : pump[k] # "none"}

\* WebsocketProtocol.Connect, lines 151-191: the dial fails, or the handle is
\* stored, a fresh stop channel made and the read loop started.  The server
\* accepts a connection only while fewer than n read loops are alive.
Dial(t, n) ==
  /\ pc[t] = "conn_dial"
  /\ \E ok \in BOOLEAN :
       IF ok
       THEN /\ FreeConns # {} /\ Cardinality(LiveLoops) < n
            /\ conn' = NewConn
            /\ connected' = TRUE
            /\ stopClosed' = FALSE
            /\ pump' = [pump EXCEPT ![NewConn] = "select"]
            /\ ack' = [ack EXCEPT ![NewConn] = FALSE]
            /\ Ret(t, "ok", sent[t])
       ELSE /\ Ret(t, "err_dial", sent[t])
            /\ UNCHANGED <<conn, connected, stopClosed, pump, ack>>
  /\ UNCHANGED <<engineVars, rc, phd, hd, orphans, crashed,
                 sinceDisc, outlived>>

ConnDial(t) == Dial(t, MaxConns)

\* ForceDisconnect, lines 421-424: the early return of a transport that is
\* already down.
ForceAlways == FALSE
AlreadyDown == ~connected \/ conn = NilConn

\* WebsocketProtocol.ForceDisconnect, lines 417-444: under wp.mu the flag is
\* cleared, the socket closed and the handle dropped, and the stop channel is
\* closed unless the select finds it closed.
ForceDisconnect(t) ==
  /\ pc[t] = "fd"
  /\ IF AlreadyDown
     THEN UNCHANGED <<connected, conn, stopClosed, outlived>>
     ELSE /\ connected' = FALSE
          /\ conn' = NilConn
          /\ stopClosed' = TRUE
          /\ outlived' = (outlived \/ sessionID # NoSession)
  /\ Ret(t, "ok", sent[t])
  /\ UNCHANGED <<engineVars, pumpVars, hd, orphans, crashed, ack, sinceDisc>>

\* ---------------------------------------------------------------------
\* readPump goroutines; pump k is the one Connect started for connection k
\* ---------------------------------------------------------------------

\* readPump, lines 363-366: the select on wp.stopChan.
PumpSelect(k) ==
  /\ pump[k] = "select"
  /\ pump' = [pump EXCEPT ![k] = IF stopClosed THEN "exit" ELSE "setdl"]
  /\ Quiet
  /\ UNCHANGED <<engineVars, transVars, rc, phd, callVars, orphans, crashed,
                 histVars>>

\* readPump, lines 368-371: wp.conn.SetReadDeadline and wp.conn.ReadMessage
\* read the field wp.conn without the lock; on a nil handle the goroutine
\* panics, nothing recovers it and the process dies with all its goroutines.
PumpRead(k) ==
  /\ pump[k] = "setdl"
  /\ IF conn = NilConn
     THEN /\ crashed' = TRUE
          /\ pump' = [c \in Conns |-> "dead"]
          /\ rc' = [c \in Conns |-> NilConn]
          /\ phd' = [c \in Conns |-> "none"]
          /\ pc' = [t \in Callers |-> "dead"]
          /\ hd' = [t \in Callers |-> "none"]
          /\ orphans' = 0
     ELSE /\ rc' = [rc EXCEPT ![k] = conn]
          /\ pump' = [pump EXCEPT ![k] = "read"]
          /\ UNCHANGED <<crashed, phd, pc, hd, orphans>>
  /\ Quiet
  /\ UNCHANGED <<engineVars, transVars, op, mode, sid, sent, err, touched,
                 histVars>>

\* ReadMessage returns an error (the socket was closed, the peer or the
\* network failed, or the read deadline passed), lines 372-375.
PumpReadErr(k) ==
  /\ pump[k] = "read"
  /\ pump' = [pump EXCEPT ![k] = "exit"]
  /\ rc' = [rc EXCEPT ![k] = NilConn]
  /\ Quiet
  /\ UNCHANGED <<engineVars, transVars, phd, callVars, orphans, crashed,
                 histVars>>

\* ReadMessage returned a frame, its handler has run: back to the top of the
\* for loop.
PumpNext(k) ==
  /\ pump[k] = "read"
  /\ pump' = [pump EXCEPT ![k] = "select"]
  /\ rc' = [rc EXCEPT ![k] = NilConn]
  /\ sinceDisc' = FALSE
  /\ last' = NoReturn
  /\ UNCHANGED playerVars

TTSTargetSpeaking(m) == StateSpeaking

\* The state handleTTSMessage sets, lines 690-696.
TTSTarget(m) == IF m = "tts_start" THEN StateSpeaking ELSE StateIdle

\* A tts frame: handleJSONMessage -> handleTTSMessage -> SetState.
PumpTTS(k) ==
  /\ \E m \in InMsgs \cap {"tts_start", "tts_stop"} :
       /\ mu = "free"
       /\ state' = TTSTarget(m)
       /\ heard' = [msg |-> m, data |-> "",
                    calls |-> StateCallbacks(state, TTSTarget(m))]
  /\ PumpNext(k)
  /\ UNCHANGED <<sessionID, listenMode, mu, transVars, phd, callVars,
                 orphans, crashed, ack, outlived>>

\* A hello frame: handleHelloMessage, lines 642-662.  A valid hello is offered
\* to the gate without blocking (nobody waits on it here); an invalid one
\* disconnects.
PumpHello(k) ==
  /\ \E m \in InMsgs \cap {"hello", "hello_bad"} :
       /\ IF m = "hello"
          THEN /\ ack' = [ack EXCEPT ![rc[k]] = TRUE]
               /\ UNCHANGED <<connected, conn, stopClosed, outlived>>
          ELSE /\ Disconnect
               /\ UNCHANGED ack
       /\ heard' = [msg |-> m, data |-> "", calls |-> <<>>]
  /\ PumpNext(k)
  /\ UNCHANGED <<engineVars, phd, callVars, orphans, crashed>>

AudioCallbacksAlways(s, data) == <<[cb |-> "onAudioData", arg |-> data]>>

\* handleBinaryMessage, lines 625-638: the calls of the audio-data callback
\* for a binary frame found in state s.
AudioCallbacks(s, data) ==
  IF s = StateListening THEN <<>>
  ELSE <<[cb |-> "onAudioData", arg |-> data]>>

\* A binary frame: handleBinaryMessage, lines 624-639: dropped in Listening,
\* otherwise handed to the audio-data callback.
PumpBinary(k) ==
  /\ "binary" \in InMsgs
  /\ mu = "free"
  /\ \E data \in Payloads :
       heard' = [msg |-> "binary", data |-> data,
                 calls |-> AudioCallbacks(state, data)]
  /\ PumpNext(k)
  /\ UNCHANGED <<engineVars, transVars, phd, callVars, orphans, crashed, ack,
                 outlived>>

\* readPump's deferred function, lines 352-360.
PumpExit(k) ==
  /\ pump[k] = "exit"
  /\ pump' = [pump EXCEPT ![k] = IF connected THEN "hdisc" ELSE "none"]
  /\ Quiet
  /\ UNCHANGED <<engineVars, transVars, rc, phd, callVars, orphans, crashed,
                 histVars>>

\* handleDisconnect, lines 395-413; the callback is client.handleDisconnected,
\* which starts its handler goroutine.
PumpHandleDisconnect(k) ==
  /\ pump[k] = "hdisc"
  /\ IF ~connected
     THEN /\ pump' = [pump EXCEPT ![k] = "none"]
          /\ UNCHANGED <<connected, conn, phd, outlived>>
     ELSE /\ connected' = FALSE
          /\ conn' = NilConn
          /\ outlived' = (outlived \/ sessionID # NoSession)
          /\ phd' = [phd EXCEPT ![k] = "start"]
          /\ pump' = [pump EXCEPT ![k] = "hd_wait"]
  /\ Quiet
  /\ UNCHANGED <<engineVars, stopClosed, rc, callVars, orphans,
                 crashed, ack, sinceDisc>>

\* The handler goroutine of the pump's handleDisconnected, lines 548-554.
PumpHdRun(k) ==
  /\ phd[k] = "start"
  /\ HandlerSection
  /\ phd' = [phd EXCEPT ![k] = HandlerStage(state)]
  /\ Quiet
  /\ UNCHANGED <<transVars, pump, rc, callVars, orphans, crashed, ack,
                 sinceDisc>>

\* Its callbacks return, done is closed and handleDisconnected returns to the
\* pump: the disconnected event has been delivered and the read loop ends.
PumpWaitDone(k) ==
  /\ pump[k] = "hd_wait"
  /\ phd[k] \in {"cb", "nocb"}
  /\ phd' = [phd EXCEPT ![k] = "none"]
  /\ pump' = [pump EXCEPT ![k] = "none"]
  /\ sinceDisc' = TRUE
  /\ Quiet
  /\ UNCHANGED <<engineVars, transVars, rc, callVars, orphans, crashed, ack,
                 outlived>>

\* ... or it returns on the watchdog, lines 572-580.
PumpWaitTimeout(k) ==
  /\ pump[k] = "hd_wait"
  /\ phd[k] # "none"
  /\ phd[k] = "start" => orphans < MaxOrphans
  /\ WatchdogSection
  /\ orphans' = IF phd[k] = "start" THEN orphans + 1 ELSE orphans
  /\ phd' = [phd EXCEPT ![k] = "none"]
  /\ pump' = [pump EXCEPT ![k] = "none"]
  /\ sinceDisc' = TRUE
  /\ Quiet
  /\ UNCHANGED <<transVars, rc, callVars, crashed, ack>>

\* ---------------------------------------------------------------------
\* The system
\* ---------------------------------------------------------------------
CallerStep(t) ==
  \/ OpenLock(t) \/ CallerSetState(t)
  \/ CloseLock(t) \/ CloseDisconnect(t) \/ CloseWaitDone(t) \/ CloseWaitTimeout(t)
  \/ HdRun(t)
  \/ SlLock(t) \/ SlSend(t) \/ StopLock(t) \/ WwLock(t) \/ WwLock2(t)
  \/ AbLock(t) \/ IotLock(t) \/ SadLock(t) \/ LastSend(t)
  \/ ConnCheck(t) \/ ConnDial(t) \/ ForceDisconnect(t)

PumpStep(k) ==
  \/ PumpSelect(k) \/ PumpRead(k) \/ PumpReadErr(k)
  \/ PumpTTS(k) \/ PumpHello(k) \/ PumpBinary(k)
  \/ PumpExit(k) \/ PumpHandleDisconnect(k)
  \/ PumpHdRun(k) \/ PumpWaitDone(k) \/ PumpWaitTimeout(k)

Next ==
  \/ \E t \in Callers : Call(t)
  \/ \E t \in Callers : CallerStep(t)
  \/ \E k \in Conns : PumpStep(k)
  \/ OrphanRun

Spec == Init /\ [][Next]_vars

\* The engine used by one goroutine of the application, with no other
\* goroutine (read loop, abandoned handler) running while a call is in progress.
Driver == "u1"

SeqNext ==
  \/ Call(Driver)
  \/ CallerStep(Driver)
  \/ pc[Driver] = "idle" /\ \E k \in Conns : PumpStep(k)
  \/ pc[Driver] = "idle" /\ OrphanRun

SeqSpec == Init /\ [][SeqNext]_vars

\* ---------------------------------------------------------------------
\* The transport on its own: its operations called directly, with up to
\* MaxSlots read loops alive
\* ---------------------------------------------------------------------
TransOps == {"Connect", "Disconnect", "ForceDisconnect", "Send"}

TransCall(t) == Invoke(t, TransOps)

TransDial(t) == Dial(t, MaxSlots)

\* WebsocketProtocol.Disconnect called directly, lines 244-287.
TransDisconnect(t) ==
  /\ pc[t] = "disc"
  /\ Disconnect
  /\ Ret(t, "ok", sent[t])
  /\ UNCHANGED <<engineVars, pumpVars, hd, orphans, crashed, ack, sinceDisc>>

\* WebsocketProtocol.SendJSON / SendBinary called directly, lines 290-313
\* (main.go sends its hello this way, line 357).
TransSend(t) ==
  /\ pc[t] = "send"
  /\ \E w \in WriteResults :
       Ret(t, SendResult(w),
           IF SendResult(w) = "ok"
           THEN Append(sent[t], Frame("hello", "", "", NoSession))
           ELSE sent[t])
  /\ UNCHANGED <<engineVars, transVars, pumpVars, hd, orphans, crashed,
                 histVars>>

TransNext ==
  \/ \E t \in Callers : TransCall(t)
  \/ \E t \in Callers : TransSend(t)
  \/ \E t \in Callers : ConnCheck(t)
  \/ \E t \in Callers : TransDial(t)
  \/ \E t \in Callers : TransDisconnect(t)
  \/ \E t \in Callers : ForceDisconnect(t)
  \/ \E k \in Conns : PumpStep(k)
  \/ OrphanRun

TransSpec == Init /\ [][TransNext]_vars

\* ---------------------------------------------------------------------
\* The audio player's playback queue (internal/audio/player.go)
\* ---------------------------------------------------------------------

\* The results of decoder.Decode in QueueAudio; "none" stands for the early
\* return on a nil decoder or empty data (lines 381-383).
DecodeResults == {"pcm", "err", "none"}

\* The engine and the transport are not involved in the player's steps.
PlayerOnly ==
  UNCHANGED <<engineVars, transVars, pumpVars, callVars, orphans, crashed,
              heard, last, histVars>>

\* Start, lines 144-165 (and the stream start that follows): the consumer
\* (stream callback, or processQueue in dummy mode) starts running.
PlayerStart ==
  /\ ~isPlaying
  /\ isPlaying' = TRUE
  /\ UNCHANGED <<queue, rebuildVars, audioVars>>
  /\ PlayerOnly

\* Stop, lines 307-329: the consumer is stopped and the queue dropped.
PlayerStop ==
  /\ isPlaying
  /\ isPlaying' = FALSE
  /\ queue' = <<>>
  /\ UNCHANGED <<rebuildVars, audioVars>>
  /\ PlayerOnly

\* QueueAudio, lines 380-401: the decoded frame is appended; nothing is
\* appended when there is no decoder, no data or the decoding fails.
QueueAudio ==
  /\ Len(queue) < MaxQueue
  /\ \E d \in DecodeResults :
       queue' = IF d = "pcm" THEN Append(queue, d) ELSE queue
  /\ UNCHANGED <<isPlaying, rebuildVars, audioVars>>
  /\ PlayerOnly

\* QueuePCMAudio, lines 404-417: a copy of the frame is appended.
QueuePCMAudio ==
  /\ Len(queue) < MaxQueue
  /\ queue' = Append(queue, "pcm")
  /\ UNCHANGED <<isPlaying, rebuildVars, audioVars>>
  /\ PlayerOnly

\* The consumer takes one frame: the stream callback, lines 220-233, or a
\* tick of processQueue in dummy mode, lines 440-445.
PlayerConsume ==
  /\ isPlaying
  /\ queue # <<>>
  /\ queue' = Tail(queue)
  /\ UNCHANGED <<isPlaying, rebuildVars, audioVars>>
  /\ PlayerOnly

PlayerNext ==
  \/ PlayerStart
  \/ PlayerStop
  \/ QueueAudio
  \/ QueuePCMAudio
  \/ PlayerConsume

PlayerSpec == Init /\ [][PlayerNext]_vars

\* ---------------------------------------------------------------------
\* Rebuilding the playback pipeline (cmd/client/main.go)
\* ---------------------------------------------------------------------

\* The engine, the transport and the single player above are not involved.
RebuildOnly ==
  UNCHANGED <<engineVars, transVars, pumpVars, callVars, orphans, heard, last,
              histVars, queue, isPlaying, audioVars>>

\* A step of the rebuild: QueueAudio disposes of no frame in it.
RbGoto(p, o, n) ==
  /\ rb' = [pc |-> p, old |-> o, new |-> n]
  /\ handled' = NoHandled
  /\ UNCHANGED <<enq, crashed>>
  /\ RebuildOnly

\* reinitializeOpusDecoder is entered, lines 1105-1119: the parameters are
\* valid and audioPlayer is not nil.
RbInvoke ==
  /\ rb.pc = "idle"
  /\ audioPlayer < MaxPlayers
  /\ RbGoto("stop", audioPlayer, NoPlayer)
  /\ UNCHANGED <<audioPlayer, players>>

\* Lines 1122-1126 and Stop, player.go:308-316: a playing player is marked
\* stopped under p.mutex.
RbStop ==
  /\ rb.pc = "stop"
  /\ IF players[rb.old].isPlaying
     THEN /\ players' = [players EXCEPT ![rb.old].isPlaying = FALSE]
          /\ RbGoto("stop_queue", rb.old, NoPlayer)
     ELSE /\ UNCHANGED players
          /\ RbGoto("new", rb.old, NoPlayer)
  /\ UNCHANGED audioPlayer

\* Stop, player.go:327-329: the queue is dropped under p.queueMutex.
RbStopQueue ==
  /\ rb.pc = "stop_queue"
  /\ players' = [players EXCEPT ![rb.old].queue = 0]
  /\ RbGoto("new", rb.old, NoPlayer)
  /\ UNCHANGED audioPlayer

\* Lines 1129-1134: the codec and the new player are created; when the codec
\* cannot be created the function returns, the old player left as it is.
RbNew ==
  /\ rb.pc = "new"
  /\ \E ok \in BOOLEAN :
       IF ok
       THEN /\ players' = [players EXCEPT ![rb.old + 1] = NewPlayer]
            /\ RbGoto("close", rb.old, rb.old + 1)
       ELSE /\ UNCHANGED players
            /\ RbGoto("idle", NoPlayer, NoPlayer)
  /\ UNCHANGED audioPlayer

\* Line 1137 and Close, player.go:477-500: the old player, not playing any
\* more, loses its queue and its decoder.
RbClose ==
  /\ rb.pc = "close"
  /\ players' = [players EXCEPT ![rb.old].queue = 0, ![rb.old].decoder = FALSE]
  /\ RbGoto("assign", rb.old, rb.new)
  /\ UNCHANGED audioPlayer

\* Line 1142: the global is updated.
RbAssign ==
  /\ rb.pc = "assign"
  /\ audioPlayer' = rb.new
  /\ RbGoto("start", rb.old, rb.new)
  /\ UNCHANGED players

\* Lines 1145-1149 and Start, player.go:144-165: the new player is started.
RbStart ==
  /\ rb.pc = "start"
  /\ players' = [players EXCEPT ![rb.new].isPlaying = TRUE]
  /\ RbGoto("idle", NoPlayer, NoPlayer)
  /\ UNCHANGED audioPlayer

\* A step of the audio-data callback that goes on to p with player q.
EnqGoto(p, q) ==
  /\ enq' = [pc |-> p, p |-> q]
  /\ UNCHANGED <<audioPlayer, rb, crashed>>
  /\ RebuildOnly

\* What QueueAudio did with its frame on player p.
Handled(p, h) ==
  [by |-> p, how |-> h, isPlaying |-> players[p].isPlaying,
   decoder |-> players[p].decoder, current |-> p = audioPlayer]

\* The audio-data callback, main.go:853: audioPlayer is not nil and
\* audioPlayer.IsPlaying() is true (otherwise the callback returns).
EnqCheck ==
  /\ enq.pc = "idle"
  /\ players[audioPlayer].isPlaying
  /\ EnqGoto("queue", NoPlayer)
  /\ handled' = NoHandled
  /\ UNCHANGED players

\* main.go:854 reads the global again and calls QueueAudio, which returns at
\* once on a nil decoder (player.go:381-383).
EnqQueueAudio ==
  /\ enq.pc = "queue"
  /\ IF players[audioPlayer].decoder
     THEN /\ EnqGoto("decode", audioPlayer)
          /\ handled' = NoHandled
     ELSE /\ EnqGoto("idle", NoPlayer)
          /\ handled' = Handled(audioPlayer, "dropped")
  /\ UNCHANGED players

\* player.go:386-391: p.decoder is read a second time, with no lock, and
\* Decode is called on it: a nil pointer dereference when Close has run
\* meanwhile. A frame that fails to decode is given up.
EnqDecode ==
  /\ enq.pc = "decode"
  /\ handled' = NoHandled
  /\ IF players[enq.p].decoder
     THEN /\ \E d \in DecodeResults \ {"none"} :
               EnqGoto(IF d = "pcm" THEN "append" ELSE "idle",
                       IF d = "pcm" THEN enq.p ELSE NoPlayer)
     ELSE /\ crashed' = TRUE
          /\ enq' = [pc |-> "dead", p |-> NoPlayer]
          /\ rb' = [rb EXCEPT !.pc = "dead"]
          /\ UNCHANGED audioPlayer
          /\ RebuildOnly
  /\ UNCHANGED players

\* player.go:398-400: the frame is appended under p.queueMutex, whatever the
\* state of the player.
EnqAppend ==
  /\ enq.pc = "append"
  /\ players[enq.p].queue < MaxPending
  /\ players' = [players EXCEPT ![enq.p].queue = @ + 1]
  /\ handled' = Handled(enq.p, "appended")
  /\ EnqGoto("idle", NoPlayer)

\* The stream callback of a playing player takes one frame,
\* player.go:220-233.
PlayerDrain ==
  /\ ~crashed
  /\ \E p \in PlayerIds :
       /\ players[p].isPlaying
       /\ players[p].queue > 0
       /\ players' = [players EXCEPT ![p].queue = @ - 1]
  /\ handled' = NoHandled
  /\ UNCHANGED <<audioPlayer, rb, enq, crashed>>
  /\ RebuildOnly

RebuildNext ==
  \/ RbInvoke \/ RbStop \/ RbStopQueue \/ RbNew
  \/ RbClose \/ RbAssign \/ RbStart
  \/ EnqCheck \/ EnqQueueAudio \/ EnqDecode \/ EnqAppend
  \/ PlayerDrain

RebuildSpec == Init /\ [][RebuildNext]_vars

\* ---------------------------------------------------------------------
\* The transport with the application's callbacks (cmd/client/main.go):
\* the connected callback sends the hello, the disconnected callback starts a
\* goroutine that reconnects
\* ---------------------------------------------------------------------

\* The goroutine the disconnected callback starts, main.go:370-389.
Reconnector == "u2"

\* main calls proto.Connect when it starts, nothing being connected or under
\* way.
AppStart ==
  /\ ~connected /\ ~sinceDisc
  /\ LiveLoops = {}
  /\ pc[Reconnector] = "idle"
  /\ Invoke(Driver, {"Connect"})

\* WebsocketProtocol.Connect, lines 151-191, as Dial; on success the connected
\* callback runs before Connect returns (line 187).
AppDial(t) ==
  /\ pc[t] = "conn_dial"
  /\ \E ok \in BOOLEAN :
       IF ok
       THEN /\ FreeConns # {} /\ Cardinality(LiveLoops) < MaxConns
            /\ conn' = NewConn
            /\ connected' = TRUE
            /\ stopClosed' = FALSE
            /\ pump' = [pump EXCEPT ![NewConn] = "select"]
            /\ ack' = [ack EXCEPT ![NewConn] = FALSE]
            /\ Goto(t, "app_hello")
       ELSE /\ Ret(t, "err_dial", sent[t])
            /\ UNCHANGED <<conn, connected, stopClosed, pump, ack>>
  /\ UNCHANGED <<engineVars, rc, phd, hd, orphans, crashed,
                 sinceDisc, outlived>>

\* The connected callback, main.go:341-362: the hello is sent with SendJSON,
\* a failure is logged; Connect then returns nil.
AppHello(t) ==
  /\ pc[t] = "app_hello"
  /\ \E w \in WriteResults :
       Ret(t, "ok",
           IF SendResult(w) = "ok"
           THEN Append(sent[t], Frame("hello", "", "", NoSession))
           ELSE sent[t])
  /\ UNCHANGED <<engineVars, transVars, pumpVars, hd, orphans, crashed,
                 histVars>>

\* A frame is read and handed to the application's JSON or binary callback,
\* main.go:395-487.
AppFrame(k) ==
  /\ \E m \in InMsgs : heard' = [msg |-> m, data |-> "", calls |-> <<>>]
  /\ PumpNext(k)
  /\ UNCHANGED <<engineVars, transVars, phd, callVars, orphans, crashed, ack,
                 outlived>>

\* handleDisconnect, websocket.go:395-413, with the application's callback,
\* main.go:365-392: the error is not nil, a goroutine is started that sleeps
\* one second before it reconnects.
AppHandleDisconnect(k) ==
  /\ pump[k] = "hdisc"
  /\ IF ~connected
     THEN /\ pump' = [pump EXCEPT ![k] = "none"]
          /\ UNCHANGED <<connected, conn, sinceDisc, outlived>>
     ELSE /\ connected' = FALSE
          /\ conn' = NilConn
          /\ sinceDisc' = TRUE
          /\ outlived' = (outlived \/ sessionID # NoSession)
          /\ pump' = [pump EXCEPT ![k] = "sleep"]
  /\ Quiet
  /\ UNCHANGED <<engineVars, stopClosed, rc, phd, callVars, orphans,
                 crashed, ack>>

\* The goroutine wakes up and calls proto.Connect, once (main.go:372-382);
\* whatever Connect returns is logged and the goroutine ends (383-388).
AppReconnect(k) ==
  /\ pump[k] = "sleep"
  /\ pc[Reconnector] = "idle"
  /\ pump' = [pump EXCEPT ![k] = "none"]
  /\ pc' = [pc EXCEPT ![Reconnector] = FirstPc("Connect")]
  /\ op' = [op EXCEPT ![Reconnector] = "Connect"]
  /\ Quiet
  /\ UNCHANGED <<engineVars, transVars, rc, phd, mode, sid, sent, hd, err,
                 touched, orphans, crashed, histVars>>

AppCallerStep(t) ==
  \/ ConnCheck(t) \/ AppDial(t) \/ AppHello(t)

AppPumpStep(k) ==
  \/ PumpSelect(k) \/ PumpRead(k) \/ PumpReadErr(k) \/ AppFrame(k)
  \/ PumpExit(k) \/ AppHandleDisconnect(k) \/ AppReconnect(k)

AppNext ==
  \/ AppStart
  \/ \E t \in Callers : AppCallerStep(t)
  \/ \E k \in Conns : AppPumpStep(k)

AppSpec == Init /\ [][AppNext]_vars

\* Every goroutine that can run does run; the program is not started again
\* unless somebody does it.
FairAppSpec ==
  /\ AppSpec
  /\ \A t \in Callers : WF_vars(AppCallerStep(t))
  /\ \A k \in Conns : WF_vars(AppPumpStep(k))

\* SeqSpec on a transport whose Disconnect may fail.
FaultNext ==
  \/ SeqNext
  \/ CloseDisconnectFails(Driver)

FaultSpec == Init /\ [][FaultNext]_vars

\* Go's scheduler runs every runnable goroutine, and every read returns by
\* its deadline: a step of a caller, of a read loop or of a handler that
\* stays enabled is eventually taken.
FairSpec ==
  /\ Spec
  /\ \A t \in Callers : WF_vars(CallerStep(t))
  /\ \A k \in Conns : WF_vars(PumpStep(k))
  /\ WF_vars(OrphanRun)

\* ---------------------------------------------------------------------
\* The engine with a state-changed callback that calls back into it
\* ---------------------------------------------------------------------

\* A tts frame as in PumpTTS, with a state-changed callback that calls
\* c.GetState(): SetState has released c.mu (line 181) and invokes the
\* callback (lines 183-185), which has yet to take c.mu in GetState.
PumpTTSCallback(k) ==
  /\ pump[k] = "read"
  /\ \E m \in InMsgs \cap {"tts_start", "tts_stop"} :
       /\ mu = "free"
       /\ state' = TTSTarget(m)
       /\ heard' = [msg |-> m, data |-> "",
                    calls |-> StateCallbacks(state, TTSTarget(m))]
       /\ pump' = [pump EXCEPT ![k] = IF state # TTSTarget(m)
                                      THEN "cb_GetState" ELSE "select"]
  /\ rc' = [rc EXCEPT ![k] = NilConn]
  /\ sinceDisc' = FALSE
  /\ last' = NoReturn
  /\ UNCHANGED <<sessionID, listenMode, mu, transVars, phd, callVars,
                 orphans, crashed, ack, outlived, playerVars>>

\* GetState called by the callback, lines 169-173: c.mu.Lock() blocks while
\* the mutex is held; then the callback returns and the read loop goes on.
PumpCallbackGetState(k) ==
  /\ pump[k] = "cb_GetState"
  /\ mu = "free"
  /\ pump' = [pump EXCEPT ![k] = "select"]
  /\ Quiet
  /\ UNCHANGED <<engineVars, transVars, rc, phd, callVars, orphans, crashed,
                 histVars>>

ReentryPumpStep(k) ==
  \/ PumpSelect(k) \/ PumpRead(k) \/ PumpReadErr(k)
  \/ PumpTTSCallback(k) \/ PumpCallbackGetState(k)
  \/ PumpHello(k) \/ PumpBinary(k)
  \/ PumpExit(k) \/ PumpHandleDisconnect(k)
  \/ PumpHdRun(k) \/ PumpWaitDone(k) \/ PumpWaitTimeout(k)

ReentryNext ==
  \/ Call(Driver)
  \/ CallerStep(Driver)
  \/ \E k \in Conns : ReentryPumpStep(k)
  \/ OrphanRun

ReentrySpec == Init /\ [][ReentryNext]_vars

FairReentrySpec ==
  /\ ReentrySpec
  /\ WF_vars(CallerStep(Driver))
  /\ \A k \in Conns : WF_vars(ReentryPumpStep(k))
  /\ WF_vars(OrphanRun)

\* ---------------------------------------------------------------------
\* Properties
\* ---------------------------------------------------------------------

\* C1: in every reachable state, state == Listening implies that sessionId is
\* non-empty.
C1_ListeningHasSession == state = StateListening => sessionID # NoSession

\* C2: in every reachable state in which no operation is in flight, state ==
\* Idle implies that sessionId is empty.
C2_IdleHasNoSession ==
  (\A t \in Callers : pc[t] = "idle") /\ state = StateIdle
    => sessionID = NoSession

\* C3: every OpenChannel call that found the engine Idle eventually returns
\* to its caller (unless the process has died).
C3_OpenReturns ==
  \A t \in Callers : (pc[t] = "open_SetState") ~> (pc[t] = "idle" \/ crashed)

\* C4: an OpenChannel call that finds the state other than Idle returns a
\* state error in that very step, and the step changes neither the session
\* (state, sessionId, listen mode, mutex) nor the transport (connected flag,
\* handle, stop signal) nor the record of received hellos, and sends nothing.
C4_OpenRejectedOutsideIdle ==
  [][\A t \in Callers :
       (/\ pc[t] = "open_lock"
        /\ pc'[t] \notin {"open_lock", "dead"}
        /\ state # StateIdle)
         => /\ pc'[t] = "idle"
            /\ last' = [op |-> "Open", res |-> "err_state", frames |-> <<>>]
            /\ UNCHANGED <<engineVars, transVars, ack>>]_vars

\* C4's case: OpenChannel has just returned the state error in Listening or
\* Speaking.
C4_Witness ==
  /\ last.op = "Open" /\ last.res = "err_state"
  /\ state \in {StateListening, StateSpeaking}

\* C5: an OpenChannel call that found the engine Idle eventually returns, and
\* when what it returns is an error the state is Idle and the transport is
\* disconnected.
C5_FailedOpenLeavesIdle ==
  \A t \in Callers :
    (pc[t] = "open_SetState")
      ~> (\/ crashed
          \/ /\ last.op = "Open"
             /\ last.res # "ok" => state = StateIdle /\ ~connected)

\* C6: an OpenChannel call that found the engine Idle, on whose connection no
\* hello of the server arrives, eventually returns the timeout error with the
\* transport disconnected and the state Idle.
C6_HelloTimeoutReturns ==
  \A t \in Callers :
    (pc[t] = "open_SetState" /\ \A c \in Conns : ~ack[c])
      ~> (\/ crashed
          \/ \E c \in Conns : ack[c]
          \/ /\ last.op = "Open" /\ last.res = "err_timeout"
             /\ ~connected /\ state = StateIdle)

\* C7: once the transport's disconnected event has been delivered to the
\* engine, and until a new operation is invoked, the state is Idle.
C7_IdleAfterDisconnected == sinceDisc => state = StateIdle

\* C8: a SendAudioData call that finds the state other than Listening returns
\* a state error in that very step, leaves the state unchanged and hands no
\* frame to Transport.SendBinary.
C8_AudioRejectedOutsideListening ==
  [][\A t \in Callers :
       (/\ pc[t] = "sad_lock"
        /\ pc'[t] \notin {"sad_lock", "dead"}
        /\ state # StateListening)
         => /\ pc'[t] = "idle"
            /\ last' = [op |-> "SendAudio", res |-> "err_state",
                        frames |-> <<>>]
            /\ state' = state]_vars

\* C8's case: SendAudioData has just returned the state error outside
\* Listening.
C8_Witness ==
  /\ last.op = "SendAudio" /\ last.res = "err_state"
  /\ state # StateListening

\* C9: no frame an operation has sent (listen, abort, iot, binary audio) left
\* on a connection before the server's valid hello was received on it.
C9_NoSendBeforeHello ==
  /\ \A i \in 1..Len(last.frames) : ~last.frames[i].pre
  /\ \A t \in Callers : \A i \in 1..Len(sent[t]) : ~sent[t][i].pre

\* C10: the handling of a transport disconnect of a channel that was opened
\* (the server's hello was received on it) never goes by without invoking the
\* channel-closed callback.
C10_ClosedCallbackOnDisconnect ==
  \A k \in Conns : ack[k] => phd[k] # "nocb"

\* C11: a CloseChannel call that finds the state Idle returns success in that
\* very step and changes nothing: not the session, not the transport, no read
\* loop, and it starts no disconnect handling (so no callback is invoked).
C11_CloseInIdleChangesNothing ==
  [][\A t \in Callers :
       (/\ pc[t] = "close_lock"
        /\ pc'[t] \notin {"close_lock", "dead"}
        /\ state = StateIdle)
         => /\ pc'[t] = "idle"
            /\ last' = [op |-> "Close", res |-> "ok", frames |-> <<>>]
            /\ UNCHANGED <<engineVars, transVars, pumpVars, hd, orphans,
                           ack>>]_vars

\* C11's case: CloseChannel has just returned success in Idle with the
\* transport still connected, which the closing path would have disconnected.
C11_Witness ==
  /\ last.op = "Close" /\ last.res = "ok"
  /\ state = StateIdle /\ connected
  /\ \A t \in Callers : pc[t] = "idle"

\* C12: when the transport's Disconnect returns an error or panics during
\* CloseChannel, the call goes on to the disconnect handling, and when it
\* returns it returns that error (the panic does not leave the call), with the
\* state Idle and the session id empty.
C12_CloseSurvivesDisconnectFailure ==
  [][\A t \in Callers :
       /\ (pc[t] = "close_disc" /\ err'[t] \in DisconnectFailures)
            => (pc'[t] = "close_wait" /\ hd'[t] = "start")
       /\ (pc[t] = "close_SetState" /\ err[t] # "none"
            /\ pc'[t] \notin {"close_SetState", "dead"})
            => /\ pc'[t] = "idle"
               /\ last'.op = "Close"
               /\ last'.res = err[t] /\ last'.res \in DisconnectFailures
               /\ state' = StateIdle
               /\ sessionID' = NoSession]_vars

C12_Witness ==
  /\ last.op = "Close" /\ last.res = "err_panic"
  /\ state = StateIdle /\ sessionID = NoSession
  /\ pc[Driver] = "idle"

\* The operations that send a message to the server.
SendOps ==
  {"StartListening", "StopListening", "WakeWord", "Abort", "SendAudio",
   "IoTState", "IoTDescriptors"}

\* C13: a send operation that returns an error has not written the session:
\* state, session id and listen mode are what they were when it was called.
C13_FailedSendLeavesSession ==
  [][\A t \in Callers :
       (/\ pc[t] \notin {"idle", "dead"} /\ pc'[t] = "idle"
        /\ op[t] \in SendOps
        /\ last'.res # "ok")
         => /\ ~touched[t]
            /\ UNCHANGED <<state, sessionID, listenMode>>]_vars

\* C14: a tts start frame found in Idle sets the state to Speaking and a tts
\* stop frame found in Speaking sets it back to Idle; either step changes
\* nothing else: the session id, the listen mode and the transport's
\* connection stay as they were, no disconnect handling is started and the
\* only callback invoked is the state-changed callback, once, with the old and
\* the new state.
C14_TTSStartStop ==
  [][\A k \in Conns :
       (/\ pump[k] = "read" /\ pump'[k] = "select"
        /\ \/ heard'.msg = "tts_start" /\ state = StateIdle
           \/ heard'.msg = "tts_stop" /\ state = StateSpeaking)
         => /\ state' = IF heard'.msg = "tts_start" THEN StateSpeaking
                        ELSE StateIdle
            /\ heard'.calls =
                 <<[cb |-> "onStateChanged", arg |-> <<state, state'>>]>>
            /\ UNCHANGED <<sessionID, listenMode, mu, transVars, hd, phd,
                           orphans, ack>>]_vars

C14_Witness ==
  /\ heard.msg = "tts_stop"
  /\ heard.calls =
       <<[cb |-> "onStateChanged", arg |-> <<StateSpeaking, StateIdle>>]>>
  /\ state = StateIdle /\ connected

\* C16: a binary frame found in Listening is dropped without a call of the
\* audio-data callback; found in any other state it is passed to the callback
\* once, with the bytes received; in both cases state, session id and listen
\* mode stay as they were.
C16_BinaryFrame ==
  [][\A k \in Conns :
       (pump[k] = "read" /\ pump'[k] = "select" /\ heard'.msg = "binary")
         => /\ state = StateListening => heard'.calls = <<>>
            /\ state # StateListening =>
                 heard'.calls = <<[cb |-> "onAudioData", arg |-> heard'.data]>>
            /\ UNCHANGED <<state, sessionID, listenMode>>]_vars

C16_Witness ==
  /\ heard.msg = "binary" /\ heard.data \in Payloads
  /\ heard.calls = <<>>
  /\ state = StateListening

\* C15: StartListening("manual") called in Idle on a connected transport, when
\* it returns: it has sent exactly one message, a listen message with state
\* start, mode manual and a non-empty session id that is the engine's session
\* id; the state is Listening and the listen mode manual.
C15_StartListeningManual ==
  [][\A t \in Callers :
       (/\ pc[t] = "sl_SetState" /\ pc'[t] = "idle"
        /\ op[t] = "StartListening"
        /\ state = StateIdle)
         => /\ last'.op = "StartListening" /\ last'.res = "ok"
            /\ Len(last'.frames) = 1
            /\ last'.frames[1].type = "listen"
            /\ last'.frames[1].state = "start"
            /\ last'.frames[1].mode = ListenModeManual
            /\ last'.frames[1].sid # NoSession
            /\ last'.frames[1].sid = sessionID'
            /\ last'.frames[1].conn # NilConn
            /\ state' = StateListening
            /\ listenMode' = ListenModeManual]_vars

C15_Witness ==
  /\ last.op = "StartListening" /\ last.res = "ok"
  /\ Len(last.frames) = 1 /\ last.frames[1].sid = sessionID
  /\ sessionID # NoSession
  /\ state = StateListening /\ listenMode = ListenModeManual
  /\ connected

\* The capacity the playback queue is created with (player.go, line 61).
QueueCapacity == 100

\* C17: the playback queue never holds more frames than its fixed bound,
\* whether frames are queued faster than the consumer takes them or no
\* consumer is running.
C17_QueueBounded == Len(queue) <= QueueCapacity

\* C18: the read loop of a connection invokes the disconnected callback at
\* most once, and only for its own connection found still connected when the
\* loop exits; a loop whose connection was closed by Disconnect or
\* ForceDisconnect invokes it never.
C18_DisconnectedCallback ==
  [][\A k \in Conns :
       (pump[k] = "hdisc" /\ phd'[k] = "start") => conn = k]_vars

\* C19: a Connect that finds the transport connected returns an error and
\* leaves the connection, the stop channel and the read loops as they are; a
\* Connect whose dial fails returns the error and leaves the transport
\* disconnected, with no read loop started.
C19_ConnectWhenConnected ==
  [][\A t \in Callers :
       /\ (pc[t] = "conn_check" /\ pc'[t] \notin {"conn_check", "dead"}
            /\ connected)
            => /\ pc'[t] = "idle"
               /\ last' = [op |-> "Connect", res |-> "err_connected",
                           frames |-> <<>>]
               /\ UNCHANGED <<transVars, pumpVars>>
       /\ (pc[t] = "conn_dial" /\ pc'[t] = "idle" /\ last'.res # "ok")
            => /\ last'.op = "Connect"
               /\ ~connected' /\ conn' = NilConn
               /\ UNCHANGED <<transVars, pumpVars>>]_vars

C19_Witness ==
  /\ last.op = "Connect" /\ last.res = "err_connected"
  /\ connected /\ conn # NilConn
  /\ pump[conn] # "none"

\* C20: Disconnect on a transport that is not connected returns success and
\* changes nothing; on a connected transport it has cleared the connected
\* flag (and dropped the handle and closed the stop channel) when it returns;
\* from then until a Connect succeeds the flag stays cleared, and a SendJSON
\* or SendBinary that finds it cleared returns the not-connected error and
\* writes nothing.
C20_DisconnectThenSend ==
  [][/\ \A t \in Callers :
         /\ (pc[t] = "disc" /\ pc'[t] \notin {"disc", "dead"})
              => /\ pc'[t] = "idle"
                 /\ last' = [op |-> "Disconnect", res |-> "ok",
                             frames |-> <<>>]
                 /\ IF connected
                    THEN ~connected' /\ conn' = NilConn /\ stopClosed'
                    ELSE UNCHANGED transVars
                 /\ UNCHANGED pumpVars
         /\ (pc[t] = "send" /\ pc'[t] \notin {"send", "dead"} /\ ~connected)
              => /\ pc'[t] = "idle"
                 /\ last' = [op |-> "Send", res |-> "err_notconn",
                             frames |-> <<>>]
                 /\ UNCHANGED transVars
     /\ stopClosed' => ~connected']_vars

C20_Witness ==
  /\ last.op = "Send" /\ last.res = "err_notconn"
  /\ stopClosed /\ ~connected
  /\ \E k \in Conns : pump[k] # "none"

\* C21: no user callback is invoked with the engine lock or the transport lock
\* held, and so a callback that calls back into the engine is not blocked for
\* ever: a state-changed callback that calls GetState returns (unless the
\* process has died).
C21_CallbackReturns ==
  \A k \in Conns : (pump[k] = "cb_GetState") ~> (pump[k] # "cb_GetState")

C23_SpeakingHasSession ==
  state = StateSpeaking => sessionID # NoSession

\* C24: whenever the connection is lost because of a network error, the
\* client reconnects by itself: it is eventually connected again, also when
\* the first attempt to reconnect fails.
C24_Reconnects == sinceDisc ~> connected

\* C25: an OpenChannel call that found the engine Idle, on whose connection
\* the server's valid hello is received, eventually returns success (having
\* fired the channel-open callback).
C25_HelloOpensChannel ==
  \A t \in Callers :
    (pc[t] = "open_SetState" /\ conn # NilConn /\ ack[conn])
      ~> (crashed \/ (last.op = "Open" /\ last.res = "ok"))

\* C26: when the server's hello is not a valid one while an OpenChannel call
\* that found the engine Idle is pending, the call eventually returns an error
\* with the state Idle.
C26_BadHelloFailsOpen ==
  \A t \in Callers :
    (pc[t] = "open_SetState" /\ heard.msg = "hello_bad")
      ~> (crashed \/ (last.op = "Open" /\ last.res # "ok" /\ state = StateIdle))

\* C27: whenever the transport is disconnected while the engine is Connecting,
\* Listening or Speaking, the engine eventually reaches Idle with the session
\* id cleared (left aside the runs in which the process dies or an
\* OpenChannel call keeps the engine lock for ever).
C27_DisconnectLeadsToIdle ==
  (~connected /\ state \in {StateConnecting, StateListening, StateSpeaking})
    ~> (\/ crashed
        \/ \E t \in Callers : pc[t] = "open_SetState"
        \/ state = StateIdle /\ sessionID = NoSession)

\* C28: a SendAudioData call hands its frame to the transport's SendBinary
\* only while the state is Listening: from its state check to the send the
\* state does not change.
C28_AudioSentOnlyListening ==
  [][\A t \in Callers :
       (pc[t] = "sad_send" /\ pc'[t] = "idle") => state = StateListening]_vars

\* C29: disconnect handling always returns to its caller, the read loop or
\* CloseAudioChannel, whatever its callbacks do.
C29_DisconnectHandlingReturns ==
  /\ \A k \in Conns : (pump[k] = "hd_wait") ~> (crashed \/ pump[k] # "hd_wait")
  /\ \A t \in Callers :
       (pc[t] = "close_wait") ~> (crashed \/ pc[t] # "close_wait")

\* The second half of C29 on its own: when handleDisconnected returns to the
\* read loop, the state is Idle and the session id is empty.
DisconnectHandlingEndsIdle ==
  [][\A k \in Conns :
       (pump[k] = "hd_wait" /\ pump'[k] = "none")
         => (state' = StateIdle /\ sessionID' = NoSession)]_vars

WakeWordInListening ==
  /\ last.op = "WakeWord" /\ last.res = "ok"
  /\ Len(last.frames) = 1

\* ---------------------------------------------------------------------
\* C31: Within one connection the session id chosen at the first
\* StartListening is reused by every later StartListening, WakeWordDetected
\* and AbortSpeaking until a disconnect clears it, and the first
\* StartListening after a disconnect uses a freshly generated session id.
\* As a step property: a StartListening that passes its state check leaves
\* a non-empty session id in the engine and in the request it builds, keeps
\* the id that was there, and keeps it only if the transport was not
\* disconnected since that id was generated; WakeWordDetected and
\* AbortSpeaking copy the engine's id; and a non-empty id changes only by
\* being cleared.
\* ---------------------------------------------------------------------
SessionReusedWithinConnection ==
  /\ \A t \in Callers :
       /\ (pc[t] = "sl_lock" /\ pc'[t] = "sl_send") =>
            /\ sessionID' # NoSession
            /\ sid'[t] = sessionID'
            /\ sessionID # NoSession => sessionID' = sessionID
       /\ (pc[t] \in {"ww_lock", "ww_lock2"} /\ pc'[t] = "ww_send") =>
            sid'[t] = sessionID /\ sessionID' = sessionID
       /\ (pc[t] = "ab_lock" /\ pc'[t] = "ab_send") =>
            sid'[t] = sessionID /\ sessionID' = sessionID
  /\ (sessionID # NoSession /\ sessionID' # sessionID) =>
       sessionID' = NoSession

FreshAfterDisconnect ==
  \A t \in Callers :
    (pc[t] = "sl_lock" /\ pc'[t] = "sl_send" /\ sessionID # NoSession) =>
      ~outlived

C31_SessionReuse ==
  [][SessionReusedWithinConnection /\ FreshAfterDisconnect]_vars

\* The first half alone: reuse while the id is there.
SessionReuse == [][SessionReusedWithinConnection]_vars

\* ---------------------------------------------------------------------
\* C32: SendAbortSpeaking(reason), no other goroutine running meanwhile.
\* Called in Idle it returns success having sent nothing; called in any
\* other state it hands one abort message to the transport, carrying the
\* engine's session id and the reason, and returns what the transport
\* returns; the state and the session id are the same after as before.
\* ---------------------------------------------------------------------
C32_AbortSpeaking ==
  [][\A t \in Callers :
       /\ (pc[t] = "ab_lock" /\ pc'[t] \notin {"ab_lock", "dead"})
            => IF state = StateIdle
               THEN pc'[t] = "idle" /\ last'.res = "ok" /\ last'.frames = <<>>
               ELSE pc'[t] = "ab_send" /\ sent'[t] = <<>>
       /\ (pc[t] = "ab_send" /\ pc'[t] = "idle")
            => LET fr == last'.frames
               IN IF last'.res = "ok"
                  THEN /\ Len(fr) = 1
                       /\ fr[1].type = "abort"
                       /\ fr[1].sid = sessionID
                       /\ fr[1].reason = mode[t]
                       /\ mode[t] \in AbortReasons
                  ELSE fr = <<>>
       /\ pc[t] \in {"ab_lock", "ab_send"}
            => state' = state /\ sessionID' = sessionID]_vars

C32_Witness ==
  /\ last.op = "Abort" /\ last.res = "ok"
  /\ Len(last.frames) = 1
  /\ last.frames[1].reason = "stop_speaking"
  /\ last.frames[1].sid = sessionID /\ sessionID # NoSession
  /\ state = StateSpeaking

\* The other case of C32: the call found the engine Idle.
AbortInIdle ==
  /\ last.op = "Abort" /\ last.res = "ok"
  /\ last.frames = <<>>
  /\ state = StateIdle

\* ---------------------------------------------------------------------
\* C33: ForceDisconnect is synchronous and idempotent, and no interleaving
\* of Disconnect, ForceDisconnect and the read loops closes the stop channel
\* of a connection twice.  When ForceDisconnect returns, the transport is
\* marked disconnected and the handle is nil; called on a transport that is
\* already down it changes nothing; the stop channel is made open with each
\* connection, a step closes it only when it is open, and only a new
\* connection (with its new channel) follows a closed one.
\* ---------------------------------------------------------------------
C33_ForceDisconnect ==
  [][/\ \A t \in Callers :
          (pc[t] = "fd" /\ pc'[t] = "idle") =>
            /\ ~connected' /\ conn' = NilConn
            /\ ~connected => UNCHANGED transVars
            /\ connected => stopClosed'
     /\ (connected /\ ~connected' /\ stopClosed') => ~stopClosed
     /\ (stopClosed /\ ~stopClosed') => (~connected /\ connected')
     /\ connected' => ~stopClosed']_vars

\* ForceDisconnect has torn a live connection down, and a second call has
\* found the transport down.
C33_Witness ==
  /\ last.op = "ForceDisconnect" /\ last.res = "ok"
  /\ ~connected /\ conn = NilConn /\ stopClosed
  /\ \E k \in Conns : pump[k] \notin {"none", "dead"}

\* ---------------------------------------------------------------------
\* Recording (cmd/client/main.go, startRecording and the F2 keys; the
\* recorder of internal/audio/recorder_linux.go)
\* ---------------------------------------------------------------------

\* The engine, the transport and the players are not involved.
CaptureOnly ==
  UNCHANGED <<engineVars, transVars, pumpVars, callVars, orphans, heard, last,
              histVars, queue, isPlaying, rebuildVars, otoVars>>

\* A step of the recording that is not the capture callback disposing of a
\* frame.
NoCapture == captured' = "none" /\ CaptureOnly

\* close(ch): closing a closed channel panics, and nothing recovers it.
CloseChan(ch) ==
  IF chans[ch].open
  THEN chans' = [chans EXCEPT ![ch].open = FALSE] /\ UNCHANGED crashed
  ELSE crashed' = TRUE /\ UNCHANGED chans

\* The channels no goroutine and no variable refers to.
FreeChans == {i \in ChanIds : sender[i] = "none" /\ audioChan # i}

\* startRecording, lines 887-906: nothing is done while the recorder is
\* recording.
StartRecordingEnter ==
  /\ kpc = "idle" /\ ~crashed
  /\ ~isRecording
  /\ kpc' = "sr_close"
  /\ UNCHANGED <<audioChan, chans, sender, cap, isRecording, crashed>>
  /\ NoCapture

\* startRecording, lines 908-912: a channel left by an earlier recording is
\* closed.
StartRecordingClose ==
  /\ kpc = "sr_close" /\ ~crashed
  /\ IF audioChan # NilChan
     THEN CloseChan(audioChan)
     ELSE UNCHANGED <<chans, crashed>>
  /\ kpc' = "sr_make"
  /\ UNCHANGED <<audioChan, sender, cap, isRecording>>
  /\ NoCapture

\* startRecording, lines 915-932: the new channel and its sender goroutine.
StartRecordingMake ==
  /\ kpc = "sr_make" /\ ~crashed
  /\ FreeChans # {}
  /\ LET i == CHOOSE j \in FreeChans : \A k \in FreeChans : j <= k
     IN /\ audioChan' = i
        /\ chans' = [chans EXCEPT ![i] = [open |-> TRUE, n |-> 0]]
        /\ sender' = [sender EXCEPT ![i] = "range"]
  /\ kpc' = "sr_start"
  /\ UNCHANGED <<cap, isRecording, crashed>>
  /\ NoCapture

\* startRecording, lines 935-962: the callback is installed and the recorder
\* started (recorder_linux.go:48-98); if that fails the channel is closed and
\* forgotten.
StartRecordingStart ==
  /\ kpc = "sr_start" /\ ~crashed
  /\ \E ok \in BOOLEAN :
       IF ok
       THEN /\ isRecording' = TRUE
            /\ cap' = "select"
            /\ UNCHANGED <<audioChan, chans, crashed>>
       ELSE /\ CloseChan(audioChan)
            /\ audioChan' = NilChan
            /\ UNCHANGED <<cap, isRecording>>
  /\ kpc' = "idle"
  /\ UNCHANGED sender
  /\ NoCapture

\* The F2 release, lines 684 and 699: audioManager.StopRecording closes the
\* recorder's stop channel (recorder_linux.go:100-110) ...
StopRecordingEnter ==
  /\ kpc = "idle" /\ ~crashed
  /\ isRecording
  /\ isRecording' = FALSE
  /\ kpc' = "st_wait"
  /\ UNCHANGED <<audioChan, chans, sender, cap, crashed>>
  /\ NoCapture

\* ... and waits for the capture goroutine to end (recorder_linux.go:113).
\* The key handler then closes and forgets the channel (lines 689-694,
\* 715-720); stopRecording, lines 965-988, leaves it as it is.
StopRecordingWait ==
  /\ kpc = "st_wait" /\ ~crashed
  /\ cap = "none"
  /\ \E closes \in BOOLEAN :
       IF closes /\ audioChan # NilChan
       THEN CloseChan(audioChan) /\ audioChan' = NilChan
       ELSE UNCHANGED <<audioChan, chans, crashed>>
  /\ kpc' = "idle"
  /\ UNCHANGED <<sender, cap, isRecording>>
  /\ NoCapture

\* The capture goroutine, recorder_linux.go:76-88: it ends when the stop
\* channel is closed, otherwise reads a buffer and calls the PCM callback,
\* which encodes the buffer and, unless the encoding fails, calls the
\* audio-data callback (part_006:182-188).
CaptureSelect ==
  /\ cap = "select" /\ ~crashed
  /\ \E encoded \in BOOLEAN :
       cap' = IF ~isRecording THEN "none"
              ELSE IF encoded THEN "cb_check" ELSE "select"
  /\ UNCHANGED <<audioChan, chans, sender, kpc, isRecording, crashed>>
  /\ NoCapture

\* The audio-data callback, lines 936-939: nothing to do without a channel.
CaptureCheck ==
  /\ cap = "cb_check" /\ ~crashed
  /\ cap' = IF audioChan = NilChan THEN "select" ELSE "cb_send"
  /\ captured' = IF audioChan = NilChan THEN "nochan" ELSE "none"
  /\ UNCHANGED <<audioChan, chans, sender, kpc, isRecording, crashed>>
  /\ CaptureOnly

\* The select of lines 942-948 has a default case.
SelectBlocks == FALSE
SelectDefault == TRUE

\* The audio-data callback, lines 942-948: the frame goes into the channel if
\* there is room, otherwise the default case drops it.  A nil channel is
\* never ready; a send on a closed channel panics.
CaptureSend ==
  /\ cap = "cb_send" /\ ~crashed
  /\ IF audioChan = NilChan
     THEN /\ SelectDefault
          /\ captured' = "dropped"
          /\ UNCHANGED <<chans, crashed>>
     ELSE IF ~chans[audioChan].open
     THEN /\ crashed' = TRUE
          /\ captured' = "panic"
          /\ UNCHANGED chans
     ELSE IF chans[audioChan].n < AudioChanCapacity
     THEN /\ chans' = [chans EXCEPT ![audioChan].n = @ + 1]
          /\ captured' = "queued"
          /\ UNCHANGED crashed
     ELSE /\ SelectDefault
          /\ captured' = "dropped"
          /\ UNCHANGED <<chans, crashed>>
  /\ cap' = "select"
  /\ UNCHANGED <<audioChan, sender, kpc, isRecording>>
  /\ CaptureOnly

\* The sender goroutine, line 919: it takes the next frame of its channel,
\* waits while the channel is open and empty, and ends when it is closed and
\* empty.
SenderReceive(i) ==
  /\ sender[i] = "range" /\ ~crashed
  /\ IF chans[i].n > 0
     THEN /\ chans' = [chans EXCEPT ![i].n = @ - 1]
          /\ sender' = [sender EXCEPT ![i] = "send"]
     ELSE /\ ~chans[i].open
          /\ chans' = [chans EXCEPT ![i] = NoChan]
          /\ sender' = [sender EXCEPT ![i] = "none"]
  /\ UNCHANGED <<audioChan, kpc, cap, isRecording, crashed>>
  /\ NoCapture

\* The sender goroutine, lines 921-930: c.SendAudioData returns.
SenderSend(i) ==
  /\ sender[i] = "send" /\ ~crashed
  /\ sender' = [sender EXCEPT ![i] = "range"]
  /\ UNCHANGED <<audioChan, chans, kpc, cap, isRecording, crashed>>
  /\ NoCapture

CaptureStep == CaptureSelect \/ CaptureCheck \/ CaptureSend

CaptureNext ==
  \/ StartRecordingEnter
  \/ StartRecordingClose
  \/ StartRecordingMake
  \/ StartRecordingStart
  \/ StopRecordingEnter
  \/ StopRecordingWait
  \/ CaptureSelect
  \/ CaptureCheck
  \/ CaptureSend
  \/ \E i \in ChanIds : SenderReceive(i)
  \/ \E i \in ChanIds : SenderSend(i)

CaptureSpec == Init /\ [][CaptureNext]_vars

\* ---------------------------------------------------------------------
\* C34: the capture-side audio callback never blocks.  A channel never holds
\* more than 100 frames; the callback, once entered, can always take its next
\* step, whatever the sender goroutine is doing; and its select puts the
\* frame into the channel when fewer than 100 are pending and drops it
\* otherwise, leaving the channel as it was.
\* ---------------------------------------------------------------------
CaptureBounded == \A i \in ChanIds : chans[i].n <= AudioChanCapacity

CaptureCanStep ==
  (cap \in {"cb_check", "cb_send"} /\ ~crashed) => ENABLED CaptureStep

CaptureEnqueuesOrDrops ==
  (cap = "cb_send" /\ cap' = "select" /\ audioChan # NilChan /\ ~crashed') =>
    IF chans[audioChan].n < AudioChanCapacity
    THEN /\ chans' = [chans EXCEPT ![audioChan].n = @ + 1]
         /\ captured' = "queued"
    ELSE /\ chans' = chans
         /\ captured' = "dropped"

C34_CaptureNeverBlocks ==
  /\ [](CaptureBounded /\ CaptureCanStep)
  /\ [][CaptureEnqueuesOrDrops]_vars

\* The newest frame has been dropped on a full channel whose sender is busy
\* sending.
C34_Witness ==
  /\ captured = "dropped"
  /\ audioChan # NilChan
  /\ chans[audioChan].n = AudioChanCapacity
  /\ sender[audioChan] = "send"

\* The other case of C34: the frame went into the channel.
CaptureQueued ==
  /\ captured = "queued"
  /\ audioChan # NilChan /\ chans[audioChan].n = AudioChanCapacity

\* ---------------------------------------------------------------------
\* The Oto player and the audio manager that owns it (package audio:
\* part_007, lines 318-701, and part_006)
\* ---------------------------------------------------------------------

\* Nothing else is involved in the steps of the Oto player.
OtoOnly ==
  UNCHANGED <<engineVars, transVars, pumpVars, callVars, orphans, heard, last,
              histVars, isPlaying, rebuildVars, captureVars>>

\* A step that is not a return of RecreatePlayer and leaves the queue alone.
OtoQuiet == recreated' = NoRecreate /\ UNCHANGED queue /\ OtoOnly

\* A player as NewAudioPlayerWithOptions (lines 385-397) or the fallback of
\* NewAudioPlayer2 (lines 417-426) returns it: not playing, with an open stop
\* channel of its own.
NewOtoPlayer(a, ch, dummy) ==
  [made |-> TRUE, params |-> a, isPlaying |-> FALSE, stopChan |-> ch,
   prevChan |-> 0, stopChanClosed |-> FALSE, dummyMode |-> dummy]

\* The stop channels nothing refers to any more.
FreeStopChans ==
  {i \in StopChanIds :
     /\ i # otoPlayer.stopChan /\ i # otoPlayer.prevChan
     /\ \A c \in ConsumerIds : consumers[c].pc # "none" => consumers[c].ch # i}

NewStopChan == CHOOSE i \in FreeStopChans : \A j \in FreeStopChans : i <= j

FreeConsumers == {c \in ConsumerIds : consumers[c].pc = "none"}

\* The consumers that have not returned.
Running == {c \in ConsumerIds : consumers[c].pc # "none"}

\* NewAudioPlayerWithOptions, lines 362-398: refused once an Oto context
\* exists; otherwise oto.NewContext fails or the context is made and
\* otoInited set.
ContextResult(ok) ==
  IF otoInited THEN "err_inited" ELSE IF ok THEN "ok" ELSE "err_context"

\* NewAudioManagerWithOptions, part_006:63-117: the manager exists only if its
\* player could be made.
NewAudioManager ==
  /\ ~otoPlayer.made /\ ~crashed
  /\ \E ok \in BOOLEAN, a \in AudioParams :
       IF ContextResult(ok) = "ok"
       THEN /\ otoInited' = TRUE
            /\ manager' = TRUE
            /\ otoPlayer' = NewOtoPlayer(a, NewStopChan, FALSE)
            /\ stopChans' = [stopChans EXCEPT ![NewStopChan] = "open"]
       ELSE UNCHANGED <<otoInited, manager, otoPlayer, stopChans>>
  /\ UNCHANGED <<pmutex, consumers, upc, crashed>>
  /\ OtoQuiet

\* NewAudioPlayer2, lines 402-430: a player of its own, in dummy mode when the
\* Oto context cannot be made.
NewAudioPlayer2 ==
  /\ ~otoPlayer.made /\ ~crashed
  /\ \E ok \in BOOLEAN, a \in AudioParams :
       /\ otoInited' = (otoInited \/ ContextResult(ok) = "ok")
       /\ otoPlayer' = NewOtoPlayer(a, NewStopChan, ContextResult(ok) # "ok")
       /\ stopChans' = [stopChans EXCEPT ![NewStopChan] = "open"]
  /\ UNCHANGED <<manager, pmutex, consumers, upc, crashed>>
  /\ OtoQuiet

\* A goroutine calls Start or Stop on the player.
OtoInvoke(t) ==
  /\ upc[t] = "idle" /\ otoPlayer.made /\ ~crashed
  /\ \E p \in {"start_lock", "stop_lock"} : upc' = [upc EXCEPT ![t] = p]
  /\ UNCHANGED <<otoInited, manager, otoPlayer, pmutex, stopChans, consumers,
                 crashed>>
  /\ OtoQuiet

\* Start, lines 434-442: p.mutex is taken and, under stopChanMutex, a closed
\* stop channel is replaced by a new one.
OtoStartLock(t) ==
  /\ upc[t] = "start_lock" /\ pmutex = "free" /\ ~crashed
  /\ pmutex' = t
  /\ IF otoPlayer.stopChanClosed
     THEN /\ FreeStopChans # {}
          /\ otoPlayer' = [otoPlayer EXCEPT !.stopChan = NewStopChan,
                                            !.prevChan = otoPlayer.stopChan,
                                            !.stopChanClosed = FALSE]
          /\ stopChans' = [stopChans EXCEPT ![NewStopChan] = "open"]
     ELSE UNCHANGED <<otoPlayer, stopChans>>
  /\ upc' = [upc EXCEPT ![t] = "start_play"]
  /\ UNCHANGED <<otoInited, manager, consumers, crashed>>
  /\ OtoQuiet

\* Start, lines 444-456: unless the player is playing, it is marked playing
\* and a consumer goroutine is started, processQueue in dummy mode and
\* otoPlayLoop otherwise; p.mutex is released.
OtoStartPlay(t) ==
  /\ upc[t] = "start_play" /\ ~crashed
  /\ IF otoPlayer.isPlaying
     THEN UNCHANGED <<otoPlayer, consumers>>
     ELSE /\ FreeConsumers # {}
          /\ otoPlayer' = [otoPlayer EXCEPT !.isPlaying = TRUE]
          /\ LET c == CHOOSE d \in FreeConsumers : \A e \in FreeConsumers : d <= e
             IN consumers' =
                  [consumers EXCEPT
                     ![c] = [pc |-> IF otoPlayer.dummyMode THEN "copy"
                                    ELSE "select",
                             ch |-> 0]]
  /\ pmutex' = "free"
  /\ upc' = [upc EXCEPT ![t] = "idle"]
  /\ UNCHANGED <<otoInited, manager, stopChans, crashed>>
  /\ OtoQuiet

\* Stop, lines 491-499: under p.mutex, nothing to do unless playing; the flag
\* is cleared and the lock released.
OtoStopLock(t) ==
  /\ upc[t] = "stop_lock" /\ pmutex = "free" /\ ~crashed
  /\ IF otoPlayer.isPlaying
     THEN /\ otoPlayer' = [otoPlayer EXCEPT !.isPlaying = FALSE]
          /\ upc' = [upc EXCEPT ![t] = "stop_close"]
     ELSE /\ upc' = [upc EXCEPT ![t] = "idle"]
          /\ UNCHANGED otoPlayer
  /\ UNCHANGED <<otoInited, manager, pmutex, stopChans, consumers, crashed>>
  /\ OtoQuiet

\* Stop closes the channel only if stopChanClosed is not set, line 503.
CloseUnguarded == FALSE
CloseGuarded == otoPlayer.stopChanClosed

\* Stop, lines 501-507: under stopChanMutex the stop channel is closed unless
\* the flag says it is; closing a closed channel panics.
OtoStopClose(t) ==
  /\ upc[t] = "stop_close" /\ ~crashed
  /\ IF CloseGuarded
     THEN UNCHANGED <<otoPlayer, stopChans, crashed>>
     ELSE IF stopChans[otoPlayer.stopChan] = "closed"
     THEN crashed' = TRUE /\ UNCHANGED <<otoPlayer, stopChans>>
     ELSE /\ stopChans' = [stopChans EXCEPT ![otoPlayer.stopChan] = "closed"]
          /\ otoPlayer' = [otoPlayer EXCEPT !.stopChanClosed = TRUE]
          /\ UNCHANGED crashed
  /\ upc' = [upc EXCEPT ![t] = "stop_queue"]
  /\ UNCHANGED <<otoInited, manager, pmutex, consumers>>
  /\ recreated' = NoRecreate /\ UNCHANGED queue /\ OtoOnly

\* Stop, lines 509-520: the queue is dropped and the Oto player closed.
OtoStopQueue(t) ==
  /\ upc[t] = "stop_queue" /\ ~crashed
  /\ queue' = <<>>
  /\ upc' = [upc EXCEPT ![t] = "idle"]
  /\ UNCHANGED <<otoInited, manager, otoPlayer, pmutex, stopChans, consumers,
                 crashed>>
  /\ recreated' = NoRecreate /\ OtoOnly

\* The field p.stopChan as a consumer reads it, without any lock: the channel
\* it holds, or the one it held before Start replaced it.
ReadStopChan ==
  {otoPlayer.stopChan} \cup
    (IF otoPlayer.prevChan = 0 THEN {} ELSE {otoPlayer.prevChan})

\* otoPlayLoop, lines 464-467: the select on p.stopChan, read anew in every
\* round.
OtoLoopSelect(c) ==
  /\ consumers[c].pc = "select" /\ ~crashed
  /\ \E ch \in ReadStopChan :
       consumers' =
         [consumers EXCEPT
            ![c] = IF stopChans[ch] = "closed" THEN NoConsumer
                   ELSE [pc |-> "play", ch |-> 0]]
  /\ UNCHANGED <<otoInited, manager, otoPlayer, pmutex, stopChans, upc,
                 crashed>>
  /\ OtoQuiet

\* otoPlayLoop, lines 468-485: a frame is taken and written, or the loop
\* sleeps on an empty queue.
OtoLoopPlay(c) ==
  /\ consumers[c].pc = "play" /\ ~crashed
  /\ consumers' = [consumers EXCEPT ![c].pc = "select"]
  /\ UNCHANGED <<otoInited, manager, otoPlayer, pmutex, stopChans, upc,
                 crashed>>
  /\ OtoQuiet

\* processQueue, line 598: the stop channel is copied once.
ProcessQueueCopy(c) ==
  /\ consumers[c].pc = "copy" /\ ~crashed
  /\ \E ch \in ReadStopChan :
       consumers' = [consumers EXCEPT ![c] = [pc |-> "wait", ch |-> ch]]
  /\ UNCHANGED <<otoInited, manager, otoPlayer, pmutex, stopChans, upc,
                 crashed>>
  /\ OtoQuiet

\* processQueue, lines 612-624: it returns when its channel is closed, and
\* otherwise drops a frame at each tick.
ProcessQueueWait(c) ==
  /\ consumers[c].pc \in {"wait", "tick"} /\ ~crashed
  /\ consumers' =
       [consumers EXCEPT
          ![c] = IF stopChans[consumers[c].ch] = "closed" THEN NoConsumer
                 ELSE [@ EXCEPT !.pc = IF @ = "wait" THEN "tick" ELSE "wait"]]
  /\ UNCHANGED <<otoInited, manager, otoPlayer, pmutex, stopChans, upc,
                 crashed>>
  /\ OtoQuiet

\* AudioManagerNew.RecreatePlayer, part_006:267-291: refused when an Oto
\* context exists; otherwise the old player is closed (Close, lines 653-679:
\* stopped if playing) and a new one made for the new parameters.
RecreatePlayer ==
  /\ manager /\ otoPlayer.made /\ ~crashed
  /\ pmutex = "free" /\ \A t \in Callers : upc[t] = "idle"
  /\ \E ok \in BOOLEAN, a \in AudioParams :
       /\ recreated' = [res |-> ContextResult(ok), params |-> a]
       /\ IF otoInited
          THEN UNCHANGED <<otoInited, otoPlayer, stopChans>>
          ELSE IF ok
          THEN /\ otoInited' = TRUE
               /\ otoPlayer' = NewOtoPlayer(a, NewStopChan, FALSE)
               /\ stopChans' =
                    [stopChans EXCEPT
                       ![NewStopChan] = "open",
                       ![otoPlayer.stopChan] =
                          IF otoPlayer.isPlaying THEN "closed" ELSE @]
          ELSE /\ otoPlayer' = [otoPlayer EXCEPT !.isPlaying = FALSE,
                                                 !.stopChanClosed =
                                                    @ \/ otoPlayer.isPlaying]
               /\ stopChans' =
                    [stopChans EXCEPT
                       ![otoPlayer.stopChan] =
                          IF otoPlayer.isPlaying THEN "closed" ELSE @]
               /\ UNCHANGED otoInited
  /\ UNCHANGED <<manager, pmutex, consumers, upc, crashed, queue>>
  /\ OtoOnly

OtoNext ==
  \/ NewAudioManager
  \/ NewAudioPlayer2
  \/ RecreatePlayer
  \/ \E t \in Callers : OtoInvoke(t)
  \/ \E t \in Callers : OtoStartLock(t)
  \/ \E t \in Callers : OtoStartPlay(t)
  \/ \E t \in Callers : OtoStopLock(t)
  \/ \E t \in Callers : OtoStopClose(t)
  \/ \E t \in Callers : OtoStopQueue(t)
  \/ \E c \in ConsumerIds : OtoLoopSelect(c)
  \/ \E c \in ConsumerIds : OtoLoopPlay(c)
  \/ \E c \in ConsumerIds : ProcessQueueCopy(c)
  \/ \E c \in ConsumerIds : ProcessQueueWait(c)

OtoSpec == Init /\ [][OtoNext]_vars

\* The consumers and the callers are scheduled fairly.
FairOtoSpec ==
  /\ OtoSpec
  /\ \A c \in ConsumerIds :
       /\ WF_vars(OtoLoopSelect(c)) /\ WF_vars(OtoLoopPlay(c))
       /\ WF_vars(ProcessQueueCopy(c)) /\ WF_vars(ProcessQueueWait(c))
  /\ \A t \in Callers :
       /\ WF_vars(OtoStartLock(t)) /\ WF_vars(OtoStartPlay(t))
       /\ WF_vars(OtoStopLock(t)) /\ WF_vars(OtoStopClose(t))
       /\ WF_vars(OtoStopQueue(t))

\* ---------------------------------------------------------------------
\* C35: RecreatePlayer called on an audio manager whose player was already
\* made returns no error and leaves the manager with a player built for the
\* new parameters.
\* ---------------------------------------------------------------------
C35_RecreatePlayer ==
  recreated.res # "none" =>
    /\ recreated.res = "ok"
    /\ otoPlayer.params = recreated.params

\* What the code does instead: every call is refused.
RecreateRefused ==
  recreated.res # "none" => recreated.res = "err_inited"

\* ---------------------------------------------------------------------
\* C40: for any interleaving of Start and Stop on the player, at most one
\* playback consumer (processQueue or otoPlayLoop) is running at a time,
\* every consumer running when a Stop has closed the stop channel ends
\* afterwards, and the stop channel is never closed twice (which would
\* panic).
\* ---------------------------------------------------------------------
AtMostOneConsumer == Cardinality(Running) <= 1

StopChanClosedOnce == ~crashed

ConsumersEndAfterStop ==
  \A c \in ConsumerIds :
    (consumers[c].pc # "none" /\ \E t \in Callers : upc[t] = "stop_queue")
      ~> (consumers[c].pc = "none")

C40_StartStop ==
  /\ [](AtMostOneConsumer /\ StopChanClosedOnce)
  /\ ConsumersEndAfterStop

\* The parts of C40 on their own.
OneConsumer == []AtMostOneConsumer
NoDoubleClose == []StopChanClosedOnce

\* ---------------------------------------------------------------------
\* C36: whenever the engine is Idle and no OpenAudioChannel call is in
\* progress, the transport is not connected; in particular the transport is
\* not connected when CloseAudioChannel returns.
\* ---------------------------------------------------------------------
IdleMeansDisconnected ==
  (state = StateIdle /\ \A t \in Callers : op[t] # "Open") => ~connected

CloseLeavesDisconnected ==
  \A t \in Callers :
    (op[t] = "Close" /\ pc[t] # "idle" /\ pc'[t] = "idle") => ~connected'

C36_IdleDisconnected ==
  /\ []IdleMeansDisconnected
  /\ [][CloseLeavesDisconnected]_vars

\* The engine has gone back to Idle on the server's tts stop, the transport
\* still connected.
IdleAfterTTSStop ==
  /\ heard.msg = "tts_stop" /\ state = StateIdle /\ connected
  /\ \A t \in Callers : op[t] # "Open"

\* ---------------------------------------------------------------------
\* C37: every change of the engine's state to a different value, the change
\* to Idle made by the disconnect handling and by CloseAudioChannel
\* included, invokes the state-changed callback exactly once, with the old
\* and the new state; and the callback is invoked for no other reason.
\* ---------------------------------------------------------------------
StateChangedCalls ==
  SelectSeq(heard'.calls, LAMBDA c : c.cb = "onStateChanged")

C37_StateChangedCallback ==
  [][StateChangedCalls =
       IF state' # state
       THEN <<[cb |-> "onStateChanged", arg |-> <<state, state'>>]>>
       ELSE <<>>]_vars

\* What holds: the state-changed callback is invoked only by a step that
\* changes the state, once, with the old and the new state.
StateChangedCallbackSound ==
  [][StateChangedCalls # <<>> =>
       /\ state' # state
       /\ StateChangedCalls =
            <<[cb |-> "onStateChanged", arg |-> <<state, state'>>]>>]_vars

\* ---------------------------------------------------------------------
\* The transport closed with Disconnect and connected again: one goroutine
\* calls Connect, Disconnect and the sends, the read loops run beside it
\* ---------------------------------------------------------------------
RedialOps == {"Connect", "Disconnect", "Send"}

RedialNext ==
  \/ Invoke(Driver, RedialOps)
  \/ TransSend(Driver)
  \/ ConnCheck(Driver)
  \/ TransDial(Driver)
  \/ TransDisconnect(Driver)
  \/ \E k \in Conns : PumpStep(k)
  \/ OrphanRun

RedialSpec == Init /\ [][RedialNext]_vars

\* ---------------------------------------------------------------------
\* C38: a read loop whose connection was closed by Disconnect never affects
\* a later connection.  While a later connection is installed, no step of
\* the old loop clears the connected flag, drops or closes the handle,
\* starts the disconnected callback, or reads from the later connection.
\* ---------------------------------------------------------------------
C38_OldLoopHarmless ==
  [][\A k \in Conns :
       (/\ conn # NilConn /\ conn # k
        /\ pump[k] # "none" /\ pump'[k] # pump[k] /\ ~crashed') =>
         /\ connected' = connected
         /\ conn' = conn
         /\ phd'[k] = "start" => phd[k] = "start"
         /\ rc'[k] # conn]_vars

\* ---------------------------------------------------------------------
\* C39: the read loop never uses the connection handle after it was set
\* to nil.  No read loop that has passed its select calls SetReadDeadline
\* or ReadMessage while the transport's handle is nil.
\* ---------------------------------------------------------------------
C39_NoNilRead ==
  [][\A k \in Conns :
       (pump[k] = "setdl" /\ pump'[k] # pump[k]) => conn # NilConn]_vars
====
